---- MODULE Spec2Model ----
(***************************************************************************)
(* State-machine model of contracts/BioIPRegistry.sol: the BioIP asset     *)
(* registry with its consent state machine, delegated permissions and the  *)
(* one-time-use license-token protocol for registering derivatives.        *)
(* contracts/ConsentRegistry.sol declares grantConsent, revokeConsent,     *)
(* burnAndDelete and checkConsent with the same requires and writes (its   *)
(* ownership require reverts with "Not NFT owner"); the actions of these   *)
(* names stand for both contracts.                                         *)
(*                                                                         *)
(* Every external function of the contract is one action.  A transaction   *)
(* is atomic on the EVM: a failing require reverts every write, so a       *)
(* failing call leaves the contract state as it was and only its revert    *)
(* reason is observed.  For each function F the operator FRevert gives the *)
(* revert reason of a call (the require chain, in source order) and the    *)
(* action F is the transaction that passes every require.  Callers are     *)
(* externally owned accounts.  The asset fields createdAt, dataType,       *)
(* dataSize, bioCID and ipAssetId, the token field mintedAt and the        *)
(* private ownerTokens index are written once at creation and read by no   *)
(* function; they are left out of the records.                             *)
(*                                                                         *)
(* Specifications:                                                         *)
(*   Spec      the licensing core as committed transactions: minting,      *)
(*             license tokens, derivative registration and the consent     *)
(*             transitions that gate them.                                 *)
(*   CallSpec  the same functions as calls, failing ones included, each    *)
(*             with its receipt (the function, the revert reason and,      *)
(*             when it committed, its arguments) in last.                  *)
(*   ConsentSpec  minting, the consent transitions, the delegated          *)
(*             permissions, token transfers, checkConsent queries and the  *)
(*             block clock, as calls with receipts.                        *)
(*   RaceSpec  two registerDerivative transactions on one license token,   *)
(*             submitted together and mined in either order.               *)
(*   FlowSpec  one CreateDerivativeFlow call of pkg/bioip/bioip.go, its    *)
(*             three transactions interleaved with those of other          *)
(*             sessions.                                                   *)
(*   OwnerSpec the six functions guarded by the ownership require, with    *)
(*             mints and transfers.                                        *)
(*   RootSpec  mintRootBioIP with any licenseTermsId and the licensing     *)
(*             functions.                                                  *)
(*   BurnSpec  the calls of CallSpec and grantPermission.                  *)
(*   RegistrySpec  the functions of contracts/ConsentRegistry.sol,         *)
(*             verifyDeletion included.                                    *)
(*   CodecSpec the identifier codec of package biocid (unnamed/part_001):  *)
(*             NewBioCID, String, ParseBioCID, Validate and ToMultihash on *)
(*             bounded inputs.                                             *)
(*   EventSpec the calls of CallSpec with the events they emit.            *)
(*   BothSpec  the shared consent functions called on BioIPRegistry and on *)
(*             ConsentRegistry side by side.                               *)
(*   ManagerSpec  getClient of the Go BioIPManager and ConsentChecker.     *)
(* The view functions getLineage and getDescendants are operators over the *)
(* asset records.                                                          *)
(* grantPermission and revokePermission write only permittedWallets, which *)
(* only checkConsent reads, and block.timestamp is only stored, so the     *)
(* licensing core is explored without them; mintLicenseTokens and          *)
(* registerDerivative write no field the consent functions read.           *)
(***************************************************************************)
EXTENDS Integers, Sequences, FiniteSets, TLC

\* ------------------------------------------------------------------ bounds
MaxAssets == 3
MaxLicenses == 2
MaxTime == 2
MaxCallAssets == 2
MaxVerifiers == 2
MaxParts == 7

\* ------------------------------------------------------------- input sets
ZeroAddress == "0x0"
Wallets == {"A", "B"}
Addresses == Wallets \cup {ZeroAddress}
Delegates == {"B"}
TokenIds == 0..MaxAssets
LicenseIds == 0..MaxLicenses
Amounts == 0..MaxLicenses
LicenseTermsIds == {1}
Hashes == {7}
ProofInputs == {<<1, 3>>, <<2, 0>>}

\* ---------------------------------------------------------- revert reasons
OK == "ok"
ErrNotOwner == "Not BioIP owner"
ErrNoLicense == "Parent has no license"
ErrNotActive == "Consent not active"
ErrNotChildOwner == "Not child owner"
ErrUsed == "License token already used"
ErrNotForYou == "License not for you"
ErrParentRevoked == "Parent consent revoked"
ErrNotRevoked == "Consent not revoked"
ErrBalance == "ERC1155: insufficient balance"

VARIABLES
    _tokenIds,            \* Counters.Counter: the last asset id issued
    _licenseTokenIds,     \* Counters.Counter: the last license token id issued
    bioips,               \* mapping(uint256 => BioIPAsset)
    balances,             \* ERC1155 balances: wallet -> token id -> amount
    permittedWallets,     \* mapping(uint256 => mapping(address => bool))
    deletionProofs,       \* mapping(uint256 => DeletionProof)
    licenseTokens,        \* mapping(uint256 => LicenseToken)
    parentLicenseTokens,  \* mapping(uint256 => uint256[])
    now,                  \* block.timestamp
    last,                 \* receipt of the latest observed call
    race,                 \* the two transactions in flight on one license token
    flow,                 \* the position of one CreateDerivativeFlow call
    codec,                \* the latest call of the biocid codec
    events,               \* the event log, as far as it is recorded
    consentRegistry,      \* a ConsentRegistry deployed next to the BioIPRegistry
    managers              \* the Go clients: one BioIPManager, one ConsentChecker

vars == <<_tokenIds, _licenseTokenIds, bioips, balances, permittedWallets,
          deletionProofs, licenseTokens, parentLicenseTokens, now, last, race, flow,
          codec, events, consentRegistry, managers>>

state == <<_tokenIds, _licenseTokenIds, bioips, balances, permittedWallets,
           deletionProofs, licenseTokens, parentLicenseTokens>>

\* A mapping slot that was never written reads as the zero value of its type.
ZeroAsset ==
    [owner |-> ZeroAddress, tokenId |-> 0, consentState |-> "PENDING", revokedAt |-> 0,
     contentHash |-> 0, licenseTermsId |-> 0, hasLicense |-> FALSE, parentTokenId |-> 0,
     childTokenIds |-> <<>>, generation |-> 0, licenseTokenId |-> 0]

ZeroLicenseToken ==
    [tokenId |-> 0, parentTokenId |-> 0, mintedFor |-> ZeroAddress,
     consumed |-> FALSE, consumedBy |-> 0]

ZeroProof ==
    [tokenId |-> 0, deletedAt |-> 0, merkleRoot |-> 0, nodeCount |-> 0, verifiers |-> <<>>]

balanceOf(account, id) == balances[account][id]

\* The receipt of a call: the function, the revert reason (OK for a transaction
\* that committed) and the arguments of a committed call, sender first.
Result(op, args, err) == [op |-> op, args |-> args, err |-> err]

\* No receipt is waiting to be read.
Idle == Result("none", <<>>, OK)

\* No transactions are in flight.
NoRace == [sender |-> ZeroAddress, lic |-> 0, child |-> <<>>, res |-> <<>>, kids |-> <<>>]

\* CreateDerivativeFlow has not been called.
NoFlow ==
    [pc |-> "idle", signer |-> ZeroAddress, parentTokenID |-> 0,
     licenseTokenID |-> 0, childTokenID |-> 0, err |-> OK]

\* ------------------------------------------------------------ biocid codec
\* unnamed/part_001, package biocid.  A Go string is a sequence of
\* one-character strings; a nil error is the value nil.
nil == "nil"
Scheme == <<"b", "i", "o", "c", "i", "d", ":", "/", "/">>
Slash == <<"/">>
MinParts == 5
AddressLen == 42
HashLen == 64
ErrNoScheme == "invalid biocid: must start with biocid://"
ErrFormat == "invalid biocid format: expected at least 5 parts"
ErrVersion == "unsupported version"
ErrChainRequired == "chain is required"
ErrChain == "unsupported chain"
ErrCollection == "invalid collection address"
ErrTokenID == "tokenID is required"
ErrHashLength == "invalid content hash length"
ErrConsentSig == "invalid consent signature: must start with 0x"

NilBioCID ==
    [Version |-> <<>>, Chain |-> <<>>, Collection |-> <<>>, TokenID |-> <<>>,
     ContentHash |-> <<>>, ConsentSig |-> <<>>]

\* strings.HasPrefix, strings.TrimPrefix
HasPrefix(s, prefix) == Len(s) >= Len(prefix) /\ SubSeq(s, 1, Len(prefix)) = prefix

TrimPrefix(s, prefix) ==
    IF HasPrefix(s, prefix) THEN SubSeq(s, Len(prefix) + 1, Len(s)) ELSE s

\* strings.Index, counted from 1; 0 when sep does not occur.
Index(s, sep) ==
    LET hits == {i \in 1..Len(s) : HasPrefix(SubSeq(s, i, Len(s)), sep)} IN
        IF hits = {} THEN 0 ELSE CHOOSE i \in hits : \A j \in hits : i <= j

\* strings.Split with a non-empty separator.
RECURSIVE Split(_, _)
Split(s, sep) ==
    LET i == Index(s, sep) IN
        IF i = 0 THEN <<s>>
        ELSE <<SubSeq(s, 1, i - 1)>> \o Split(SubSeq(s, i + Len(sep), Len(s)), sep)

\* Faulty variant: the elements are concatenated without the separator.
RECURSIVE Join_NoSeparator(_, _)
Join_NoSeparator(elems, sep) ==
    IF elems = <<>> THEN <<>> ELSE elems[1] \o Join_NoSeparator(Tail(elems), sep)

\* strings.Join
RECURSIVE Join(_, _)
Join(elems, sep) ==
    IF elems = <<>> THEN <<>>
    ELSE IF Len(elems) = 1 THEN elems[1]
    ELSE elems[1] \o sep \o Join(Tail(elems), sep)

ParseBioCID(s) ==
    IF ~HasPrefix(s, Scheme) THEN [err |-> ErrNoScheme, id |-> NilBioCID]
    ELSE LET parts == Split(TrimPrefix(s, Scheme), Slash) IN
        IF Len(parts) < MinParts THEN [err |-> ErrFormat, id |-> NilBioCID]
        ELSE [err |-> nil,
              id |-> [Version |-> parts[1], Chain |-> parts[2], Collection |-> parts[3],
                      TokenID |-> parts[4], ContentHash |-> parts[5],
                      ConsentSig |-> Join(SubSeq(parts, 6, Len(parts)), Slash)]]

\* fmt.Sprintf("biocid://%s/%s/%s/%s/%s/%s", ...)
String(b) ==
    Scheme \o b.Version \o Slash \o b.Chain \o Slash \o b.Collection \o Slash
           \o b.TokenID \o Slash \o b.ContentHash \o Slash \o b.ConsentSig

validChains ==
    {<<"s", "t", "o", "r", "y">>,
     <<"a", "v", "a", "l", "a", "n", "c", "h", "e">>,
     <<"e", "t", "h", "e", "r", "e", "u", "m">>}

Validate(b) ==
    IF b.Version # <<"v", "1">> THEN ErrVersion
    ELSE IF b.Chain = <<>> THEN ErrChainRequired
    ELSE IF b.Chain \notin validChains THEN ErrChain
    ELSE IF ~HasPrefix(b.Collection, <<"0", "x">>) \/ Len(b.Collection) # AddressLen
         THEN ErrCollection
    ELSE IF b.TokenID = <<>> THEN ErrTokenID
    ELSE IF Len(b.ContentHash) # HashLen THEN ErrHashLength
    ELSE IF ~HasPrefix(b.ConsentSig, <<"0", "x">>) THEN ErrConsentSig
    ELSE nil

Equal(b, other) ==
    /\ b.Version = other.Version
    /\ b.Chain = other.Chain
    /\ b.Collection = other.Collection
    /\ b.TokenID = other.TokenID
    /\ b.ContentHash = other.ContentHash
    /\ b.ConsentSig = other.ConsentSig

ErrRequired == "chain, collection, and tokenID are required"
V1 == <<"v", "1">>
Colon == <<":">>

\* hex.EncodeToString(sha256.Sum256(content)): HashLen hex digits fixed by the
\* content; the hash is taken as collision-free, the content as one hex digit.
Sum256Hex(content) == [i \in 1..HashLen |-> content]

\* NewBioCID(chain, collection, tokenID, content, consentSig)
NewBioCID(chain, collection, tokenID, content, consentSig) ==
    IF chain = <<>> \/ collection = <<>> \/ tokenID = <<>>
    THEN [err |-> ErrRequired, id |-> NilBioCID]
    ELSE [err |-> nil,
          id |-> [Version |-> V1, Chain |-> chain, Collection |-> collection,
                  TokenID |-> tokenID, ContentHash |-> Sum256Hex(content),
                  ConsentSig |-> consentSig]]

\* sha256.Sum256(data), taken as collision-free: the digest stands for its
\* preimage.
Sum256(data) == <<"sha256", data>>

\* The multihash code of SHA2_256 and the digest length, in front of the digest.
SHA2_256 == <<"12", "20">>

\* b.ToMultihash(): the digest of "chain:collection:tokenID:contentHash".
ToMultihash(b) ==
    [err |-> nil,
     mh |-> <<SHA2_256,
              Sum256(b.Chain \o Colon \o b.Collection \o Colon \o b.TokenID \o Colon
                         \o b.ContentHash)>>]

\* No codec call has been made.
NoCodec ==
    [op |-> "none", id |-> NilBioCID, err |-> nil, s |-> <<>>, valid |-> nil,
     res |-> [err |-> nil, id |-> NilBioCID],
     other |-> NilBioCID, mh |-> <<>>, otherMh |-> <<>>]

\* ------------------------------------------- ConsentRegistry.sol, side by side
\* contracts/ConsentRegistry.sol as a value: its storage and the latest call
\* made on both contracts.  Each function returns the revert reason and the
\* storage it leaves.
ErrNotNFTOwner == "Not NFT owner"

ZeroConsent ==
    [owner |-> ZeroAddress, tokenId |-> 0, state |-> "PENDING", createdAt |-> 0,
     revokedAt |-> 0, contentHash |-> 0]

NoCall == [op |-> "none", args |-> <<>>, bio |-> OK, consent |-> OK]

NewConsentRegistry ==
    [_tokenIds |-> 0,
     consents |-> [t \in TokenIds |-> ZeroConsent],
     balances |-> [w \in Wallets |-> [t \in TokenIds |-> 0]],
     permittedWallets |-> [t \in TokenIds |-> [a \in Addresses |-> FALSE]],
     deletionProofs |-> [t \in TokenIds |-> ZeroProof],
     call |-> NoCall]

Reverted(cr, reason) == [err |-> reason, cr |-> cr]

Done(cr) == [err |-> OK, cr |-> cr]

ConsentRegistry_mintAndGrantConsent(cr, sender, contentHash) ==
    LET newTokenId == cr._tokenIds + 1 IN
        Done([cr EXCEPT !._tokenIds = newTokenId,
                        !.balances[sender][newTokenId] = @ + 1,
                        !.consents[newTokenId] =
                            [owner |-> sender, tokenId |-> newTokenId, state |-> "ACTIVE",
                             createdAt |-> now, revokedAt |-> 0,
                             contentHash |-> contentHash]])

ConsentRegistry_grantConsent(cr, sender, tokenId) ==
    IF ~(cr.balances[sender][tokenId] > 0) THEN Reverted(cr, ErrNotNFTOwner)
    ELSE IF cr.consents[tokenId].state # "REVOKED" THEN Reverted(cr, "Consent not revoked")
    ELSE Done([cr EXCEPT !.consents[tokenId].state = "ACTIVE",
                         !.consents[tokenId].revokedAt = 0])

\* Faulty variant: the revocation time is not recorded.
ConsentRegistry_revokeConsent_NoTimestamp(cr, sender, tokenId) ==
    IF ~(cr.balances[sender][tokenId] > 0) THEN Reverted(cr, ErrNotNFTOwner)
    ELSE IF cr.consents[tokenId].state # "ACTIVE" THEN Reverted(cr, "Consent not active")
    ELSE Done([cr EXCEPT !.consents[tokenId].state = "REVOKED"])

ConsentRegistry_revokeConsent(cr, sender, tokenId) ==
    IF ~(cr.balances[sender][tokenId] > 0) THEN Reverted(cr, ErrNotNFTOwner)
    ELSE IF cr.consents[tokenId].state # "ACTIVE" THEN Reverted(cr, "Consent not active")
    ELSE Done([cr EXCEPT !.consents[tokenId].state = "REVOKED",
                         !.consents[tokenId].revokedAt = now])

ConsentRegistry_burnAndDelete(cr, sender, tokenId, merkleRoot, nodeCount) ==
    IF ~(cr.balances[sender][tokenId] > 0) THEN Reverted(cr, ErrNotNFTOwner)
    ELSE Done([cr EXCEPT !.balances[sender][tokenId] = @ - 1,
                         !.consents[tokenId].state = "DELETED",
                         !.deletionProofs[tokenId] =
                             [tokenId |-> tokenId, deletedAt |-> now,
                              merkleRoot |-> merkleRoot, nodeCount |-> nodeCount,
                              verifiers |-> <<>>]])

ConsentRegistry_checkConsent(cr, tokenId, wallet) ==
    LET consent == cr.consents[tokenId] IN
        IF consent.state # "ACTIVE" THEN FALSE
        ELSE IF consent.owner = wallet THEN TRUE
        ELSE IF cr.permittedWallets[tokenId][wallet] THEN TRUE
        ELSE FALSE

ConsentRegistry_grantPermissionOf(cr, sender, tokenId, wallet) ==
    IF ~(cr.balances[sender][tokenId] > 0) THEN Reverted(cr, ErrNotNFTOwner)
    ELSE IF cr.consents[tokenId].state # "ACTIVE" THEN Reverted(cr, "Consent not active")
    ELSE IF wallet = ZeroAddress THEN Reverted(cr, "Invalid wallet")
    ELSE Done([cr EXCEPT !.permittedWallets[tokenId][wallet] = TRUE])

ConsentRegistry_revokePermission(cr, sender, tokenId, wallet) ==
    IF ~(cr.balances[sender][tokenId] > 0) THEN Reverted(cr, ErrNotNFTOwner)
    ELSE Done([cr EXCEPT !.permittedWallets[tokenId][wallet] = FALSE])

\* ------------------------------------------------------------ the Go clients
\* pkg/bioip/bioip.go (BioIPManager) and unnamed/part_002 (ConsentChecker):
\* the same constructor and the same getClient.  An *ethclient.Client is
\* named by the RPC endpoint it was dialed with; nil is the value nil.
chainRPC ==
    [story |-> "https://rpc.story.foundation",
     avalanche |-> "https://api.avax.network/ext/bc/C/rpc",
     ethereum |-> "https://eth.llamarpc.com"]

ErrUnsupportedChain == "unsupported chain"
ErrDial == "failed to connect to RPC"

Objects == {"BioIPManager", "ConsentChecker"}

\* NewBioIPManager() / NewConsentChecker(): no client yet; no call made.
NewManager == [client |-> nil, call |-> [chain |-> "", err |-> nil, client |-> nil]]

\* m.getClient(chain); `dialed' tells whether ethclient.Dial succeeds.
getClient(m, chain, dialed) ==
    IF chain \notin DOMAIN chainRPC
    THEN [m EXCEPT !.call = [chain |-> chain, err |-> ErrUnsupportedChain, client |-> nil]]
    ELSE IF m.client # nil
    THEN [m EXCEPT !.call = [chain |-> chain, err |-> nil, client |-> m.client]]
    ELSE IF ~dialed
    THEN [m EXCEPT !.call = [chain |-> chain, err |-> ErrDial, client |-> nil]]
    ELSE [client |-> chainRPC[chain],
          call |-> [chain |-> chain, err |-> nil, client |-> chainRPC[chain]]]

Init ==
    /\ _tokenIds = 0
    /\ _licenseTokenIds = 0
    /\ bioips = [t \in TokenIds |-> ZeroAsset]
    /\ balances = [w \in Wallets |-> [t \in TokenIds |-> 0]]
    /\ permittedWallets = [t \in TokenIds |-> [a \in Addresses |-> FALSE]]
    /\ deletionProofs = [t \in TokenIds |-> ZeroProof]
    /\ licenseTokens = [l \in LicenseIds |-> ZeroLicenseToken]
    /\ parentLicenseTokens = [t \in TokenIds |-> <<>>]
    /\ now = 1
    /\ last = Idle
    /\ race = NoRace
    /\ flow = NoFlow
    /\ codec = NoCodec
    /\ events = <<>>
    /\ consentRegistry = NewConsentRegistry
    /\ managers = [o \in Objects |-> NewManager]

\* ERC1155 _mint(to, id, 1, "")
Minted(to, id) == [balances EXCEPT ![to][id] = @ + 1]

\* Faulty variant: the ownership token is not burned.
Burned_Kept(from, id) == balances

\* ERC1155 _burn(from, id, 1)
Burned(from, id) == [balances EXCEPT ![from][id] = @ - 1]

\* ------------------------------------------------------------ mintRootBioIP
mintRootBioIP(sender, contentHash, licenseTermsId) ==
    /\ _tokenIds < MaxAssets
    /\ LET newTokenId == _tokenIds + 1 IN
        /\ _tokenIds' = newTokenId
        /\ balances' = Minted(sender, newTokenId)
        /\ bioips' = [bioips EXCEPT ![newTokenId] =
               [owner |-> sender, tokenId |-> newTokenId, consentState |-> "ACTIVE",
                revokedAt |-> 0, contentHash |-> contentHash,
                licenseTermsId |-> licenseTermsId, hasLicense |-> TRUE,
                parentTokenId |-> 0, childTokenIds |-> <<>>, generation |-> 0,
                licenseTokenId |-> 0]]
    /\ UNCHANGED <<_licenseTokenIds, permittedWallets, deletionProofs, licenseTokens,
                   parentLicenseTokens, now>>

\* ------------------------------------------------------ mintDerivativeBioIP
mintDerivativeBioIP(sender, contentHash) ==
    /\ _tokenIds < MaxAssets
    /\ LET newTokenId == _tokenIds + 1 IN
        /\ _tokenIds' = newTokenId
        /\ balances' = Minted(sender, newTokenId)
        /\ bioips' = [bioips EXCEPT ![newTokenId] =
               [owner |-> sender, tokenId |-> newTokenId, consentState |-> "ACTIVE",
                revokedAt |-> 0, contentHash |-> contentHash,
                licenseTermsId |-> 0, hasLicense |-> FALSE,
                parentTokenId |-> 0, childTokenIds |-> <<>>, generation |-> 0,
                licenseTokenId |-> 0]]
    /\ UNCHANGED <<_licenseTokenIds, permittedWallets, deletionProofs, licenseTokens,
                   parentLicenseTokens, now>>

\* -------------------------------------------------------- mintLicenseTokens
\* Faulty variant: the require on line 194 (parent consent ACTIVE) is missing.
mintLicenseTokensRevert_NoActiveCheck(sender, parentTokenId) ==
    IF ~(balanceOf(sender, parentTokenId) > 0) THEN ErrNotOwner
    ELSE IF ~bioips[parentTokenId].hasLicense THEN ErrNoLicense
    ELSE OK

mintLicenseTokensRevert(sender, parentTokenId) ==
    IF ~(balanceOf(sender, parentTokenId) > 0) THEN ErrNotOwner
    ELSE IF ~bioips[parentTokenId].hasLicense THEN ErrNoLicense
    ELSE IF bioips[parentTokenId].consentState # "ACTIVE" THEN ErrNotActive
    ELSE OK

\* Faulty variant: the counter is read once, every token of a call gets the
\* same id.
NewLicenseIds_Reused(amount) == [i \in 1..amount |-> _licenseTokenIds + 1]

\* The ids the loop allocates, in order.
NewLicenseIds(amount) == [i \in 1..amount |-> _licenseTokenIds + i]

mintLicenseTokens(sender, parentTokenId, receiver, amount) ==
    /\ mintLicenseTokensRevert(sender, parentTokenId) = OK
    /\ _licenseTokenIds + amount <= MaxLicenses
    /\ _licenseTokenIds' = _licenseTokenIds + amount
    /\ licenseTokens' =
           [l \in LicenseIds |->
               IF l \in {NewLicenseIds(amount)[i] : i \in 1..amount}
               THEN [tokenId |-> l, parentTokenId |-> parentTokenId,
                     mintedFor |-> receiver, consumed |-> FALSE, consumedBy |-> 0]
               ELSE licenseTokens[l]]
    /\ parentLicenseTokens' =
           [parentLicenseTokens EXCEPT ![parentTokenId] = @ \o NewLicenseIds(amount)]
    /\ UNCHANGED <<_tokenIds, bioips, balances, permittedWallets, deletionProofs, now>>

\* ------------------------------------------------------- registerDerivative
\* Faulty variant: the require on line 279 (token not yet consumed) is missing.
\* Faulty variant: the parent's consent is not looked at.
registerDerivativeRevert_NoConsentCheck(sender, childTokenId, licenseTokenId) ==
    IF ~(balanceOf(sender, childTokenId) > 0) THEN ErrNotChildOwner
    ELSE IF licenseTokens[licenseTokenId].consumed THEN ErrUsed
    ELSE IF licenseTokens[licenseTokenId].mintedFor # sender THEN ErrNotForYou
    ELSE OK

registerDerivativeRevert_NoUsedCheck(sender, childTokenId, licenseTokenId) ==
    IF ~(balanceOf(sender, childTokenId) > 0) THEN ErrNotChildOwner
    ELSE IF licenseTokens[licenseTokenId].mintedFor # sender THEN ErrNotForYou
    ELSE IF bioips[licenseTokens[licenseTokenId].parentTokenId].consentState # "ACTIVE"
         THEN ErrParentRevoked
    ELSE OK

\* Faulty variant: the recipient is checked before the consumed flag
\* (lines 279 and 280 swapped).
registerDerivativeRevert_RecipientFirst(sender, childTokenId, licenseTokenId) ==
    IF ~(balanceOf(sender, childTokenId) > 0) THEN ErrNotChildOwner
    ELSE IF licenseTokens[licenseTokenId].mintedFor # sender THEN ErrNotForYou
    ELSE IF licenseTokens[licenseTokenId].consumed THEN ErrUsed
    ELSE IF bioips[licenseTokens[licenseTokenId].parentTokenId].consentState # "ACTIVE"
         THEN ErrParentRevoked
    ELSE OK

registerDerivativeRevert(sender, childTokenId, licenseTokenId) ==
    IF ~(balanceOf(sender, childTokenId) > 0) THEN ErrNotChildOwner
    ELSE IF licenseTokens[licenseTokenId].consumed THEN ErrUsed
    ELSE IF licenseTokens[licenseTokenId].mintedFor # sender THEN ErrNotForYou
    ELSE IF bioips[licenseTokens[licenseTokenId].parentTokenId].consentState # "ACTIVE"
         THEN ErrParentRevoked
    ELSE OK

\* Faulty variant: the child's generation is not written.
LinkedAssets_NoGeneration(childTokenId, licenseTokenId) ==
    LET parentTokenId == licenseTokens[licenseTokenId].parentTokenId
        withChild == [bioips EXCEPT ![childTokenId] =
                         [@ EXCEPT !.parentTokenId = parentTokenId,
                                   !.licenseTokenId = licenseTokenId,
                                   !.licenseTermsId = bioips[parentTokenId].licenseTermsId]]
    IN  [withChild EXCEPT ![parentTokenId].childTokenIds = Append(@, childTokenId)]

\* Faulty variant: the child inherits the parent's generation without the + 1.
LinkedAssets_SameGeneration(childTokenId, licenseTokenId) ==
    LET parentTokenId == licenseTokens[licenseTokenId].parentTokenId
        withChild == [bioips EXCEPT ![childTokenId] =
                         [@ EXCEPT !.parentTokenId = parentTokenId,
                                   !.generation = bioips[parentTokenId].generation,
                                   !.licenseTokenId = licenseTokenId,
                                   !.licenseTermsId = bioips[parentTokenId].licenseTermsId]]
    IN  [withChild EXCEPT ![parentTokenId].childTokenIds = Append(@, childTokenId)]

\* The asset writes of registerDerivative, in source order: the child's four
\* fields, then the push onto the parent's child list.
LinkedAssets(childTokenId, licenseTokenId) ==
    LET parentTokenId == licenseTokens[licenseTokenId].parentTokenId
        withChild == [bioips EXCEPT ![childTokenId] =
                         [@ EXCEPT !.parentTokenId = parentTokenId,
                                   !.generation = bioips[parentTokenId].generation + 1,
                                   !.licenseTokenId = licenseTokenId,
                                   !.licenseTermsId = bioips[parentTokenId].licenseTermsId]]
    IN  [withChild EXCEPT ![parentTokenId].childTokenIds = Append(@, childTokenId)]

\* Faulty variant: consumedBy is recorded but the consumed flag is not set.
ConsumedTokens_NoFlag(childTokenId, licenseTokenId) ==
    [licenseTokens EXCEPT ![licenseTokenId] = [@ EXCEPT !.consumedBy = childTokenId]]

\* Faulty variant: the consumed flag is set but consumedBy is not recorded.
ConsumedTokens_NoChild(childTokenId, licenseTokenId) ==
    [licenseTokens EXCEPT ![licenseTokenId] = [@ EXCEPT !.consumed = TRUE]]

\* The license-token writes of registerDerivative.
ConsumedTokens(childTokenId, licenseTokenId) ==
    [licenseTokens EXCEPT ![licenseTokenId] =
        [@ EXCEPT !.consumed = TRUE, !.consumedBy = childTokenId]]

registerDerivative(sender, childTokenId, licenseTokenId) ==
    /\ registerDerivativeRevert(sender, childTokenId, licenseTokenId) = OK
    /\ bioips' = LinkedAssets(childTokenId, licenseTokenId)
    /\ licenseTokens' = ConsumedTokens(childTokenId, licenseTokenId)
    /\ UNCHANGED <<_tokenIds, _licenseTokenIds, balances, permittedWallets,
                   deletionProofs, parentLicenseTokens, now>>

\* ------------------------------------------------------------- grantConsent
grantConsentRevert(sender, tokenId) ==
    IF ~(balanceOf(sender, tokenId) > 0) THEN ErrNotOwner
    ELSE IF bioips[tokenId].consentState # "REVOKED" THEN ErrNotRevoked
    ELSE OK

\* Faulty variant: re-granting resets the state to the enum's first value.
grantConsent_ToPending(sender, tokenId) ==
    /\ grantConsentRevert(sender, tokenId) = OK
    /\ bioips' = [bioips EXCEPT ![tokenId] =
           [@ EXCEPT !.consentState = "PENDING", !.revokedAt = 0]]
    /\ UNCHANGED <<_tokenIds, _licenseTokenIds, balances, permittedWallets,
                   deletionProofs, licenseTokens, parentLicenseTokens, now>>

grantConsent(sender, tokenId) ==
    /\ grantConsentRevert(sender, tokenId) = OK
    /\ bioips' = [bioips EXCEPT ![tokenId] =
           [@ EXCEPT !.consentState = "ACTIVE", !.revokedAt = 0]]
    /\ UNCHANGED <<_tokenIds, _licenseTokenIds, balances, permittedWallets,
                   deletionProofs, licenseTokens, parentLicenseTokens, now>>

\* ------------------------------------------------------------ revokeConsent
\* Faulty variant: consent can be revoked in any state.
revokeConsentRevert_AnyState(sender, tokenId) ==
    IF ~(balanceOf(sender, tokenId) > 0) THEN ErrNotOwner
    ELSE OK

revokeConsentRevert(sender, tokenId) ==
    IF ~(balanceOf(sender, tokenId) > 0) THEN ErrNotOwner
    ELSE IF bioips[tokenId].consentState # "ACTIVE" THEN ErrNotActive
    ELSE OK

\* Faulty variant: revoking consent also withdraws the delegated permissions.
revokeConsent_ClearPermissions(sender, tokenId) ==
    /\ revokeConsentRevert(sender, tokenId) = OK
    /\ bioips' = [bioips EXCEPT ![tokenId] =
           [@ EXCEPT !.consentState = "REVOKED", !.revokedAt = now]]
    /\ permittedWallets' = [permittedWallets EXCEPT ![tokenId] = [w \in Addresses |-> FALSE]]
    /\ UNCHANGED <<_tokenIds, _licenseTokenIds, balances,
                   deletionProofs, licenseTokens, parentLicenseTokens, now>>

\* Faulty variant: the revocation time is not recorded.
revokeConsent_NoTimestamp(sender, tokenId) ==
    /\ revokeConsentRevert(sender, tokenId) = OK
    /\ bioips' = [bioips EXCEPT ![tokenId].consentState = "REVOKED"]
    /\ UNCHANGED <<_tokenIds, _licenseTokenIds, balances, permittedWallets,
                   deletionProofs, licenseTokens, parentLicenseTokens, now>>

revokeConsent(sender, tokenId) ==
    /\ revokeConsentRevert(sender, tokenId) = OK
    /\ bioips' = [bioips EXCEPT ![tokenId] =
           [@ EXCEPT !.consentState = "REVOKED", !.revokedAt = now]]
    /\ UNCHANGED <<_tokenIds, _licenseTokenIds, balances, permittedWallets,
                   deletionProofs, licenseTokens, parentLicenseTokens, now>>

\* ------------------------------------------------------------ burnAndDelete
\* Faulty variant: deletion is refused unless consent is ACTIVE.
burnAndDeleteRevert_ActiveOnly(sender, tokenId) ==
    IF ~(balanceOf(sender, tokenId) > 0) THEN ErrNotOwner
    ELSE IF bioips[tokenId].consentState # "ACTIVE" THEN ErrNotActive
    ELSE OK

burnAndDeleteRevert(sender, tokenId) ==
    IF ~(balanceOf(sender, tokenId) > 0) THEN ErrNotOwner ELSE OK

\* Faulty variant: deletion removes the asset's row.
burnAndDelete_RemoveRow(sender, tokenId, merkleRoot, nodeCount) ==
    /\ burnAndDeleteRevert(sender, tokenId) = OK
    /\ balances' = Burned(sender, tokenId)
    /\ bioips' = [bioips EXCEPT ![tokenId] = [ZeroAsset EXCEPT !.consentState = "DELETED"]]
    /\ deletionProofs' = [deletionProofs EXCEPT ![tokenId] =
           [tokenId |-> tokenId, deletedAt |-> now, merkleRoot |-> merkleRoot,
            nodeCount |-> nodeCount, verifiers |-> <<>>]]
    /\ UNCHANGED <<_tokenIds, _licenseTokenIds, permittedWallets, licenseTokens,
                   parentLicenseTokens, now>>

burnAndDelete(sender, tokenId, merkleRoot, nodeCount) ==
    /\ burnAndDeleteRevert(sender, tokenId) = OK
    /\ balances' = Burned(sender, tokenId)
    /\ bioips' = [bioips EXCEPT ![tokenId].consentState = "DELETED"]
    /\ deletionProofs' = [deletionProofs EXCEPT ![tokenId] =
           [tokenId |-> tokenId, deletedAt |-> now, merkleRoot |-> merkleRoot,
            nodeCount |-> nodeCount, verifiers |-> <<>>]]
    /\ UNCHANGED <<_tokenIds, _licenseTokenIds, permittedWallets, licenseTokens,
                   parentLicenseTokens, now>>

\* ------------------------------------------------------------- checkConsent
\* Faulty variant: the owner is let in before the consent state is looked at.
checkConsent_OwnerFirst(tokenId, wallet) ==
    LET bioip == bioips[tokenId] IN
        IF bioip.owner = wallet THEN TRUE
        ELSE IF bioip.consentState # "ACTIVE" THEN FALSE
        ELSE IF permittedWallets[tokenId][wallet] THEN TRUE
        ELSE FALSE

checkConsent(tokenId, wallet) ==
    LET bioip == bioips[tokenId] IN
        IF bioip.consentState # "ACTIVE" THEN FALSE
        ELSE IF bioip.owner = wallet THEN TRUE
        ELSE IF permittedWallets[tokenId][wallet] THEN TRUE
        ELSE FALSE

\* ---------------------------------------------------------- grantPermission
grantPermissionRevert(sender, tokenId) ==
    IF ~(balanceOf(sender, tokenId) > 0) THEN ErrNotOwner
    ELSE IF bioips[tokenId].consentState # "ACTIVE" THEN ErrNotActive
    ELSE OK

grantPermission(sender, tokenId, wallet) ==
    /\ grantPermissionRevert(sender, tokenId) = OK
    /\ permittedWallets' = [permittedWallets EXCEPT ![tokenId][wallet] = TRUE]
    /\ UNCHANGED <<_tokenIds, _licenseTokenIds, bioips, balances, deletionProofs,
                   licenseTokens, parentLicenseTokens, now>>

\* --------------------------------------------------------- revokePermission
\* Faulty variant: the ownership require is missing.
revokePermissionRevert_Anyone(sender, tokenId) == OK

revokePermissionRevert(sender, tokenId) ==
    IF ~(balanceOf(sender, tokenId) > 0) THEN ErrNotOwner ELSE OK

revokePermission(sender, tokenId, wallet) ==
    /\ revokePermissionRevert(sender, tokenId) = OK
    /\ permittedWallets' = [permittedWallets EXCEPT ![tokenId][wallet] = FALSE]
    /\ UNCHANGED <<_tokenIds, _licenseTokenIds, bioips, balances, deletionProofs,
                   licenseTokens, parentLicenseTokens, now>>

\* --------------------------------------------------------------- getLineage
\* The loop of getLineage after i iterations: currentToken is the i-th
\* ancestor and ancestors holds the slots filled so far.  Slot
\* generation - 1 - i of the zero-based array is position generation - i here.
RECURSIVE getLineageLoop(_, _, _, _)
getLineageLoop(tokenId, i, currentToken, ancestors) ==
    IF i < bioips[tokenId].generation
    THEN LET parentTokenId == bioips[currentToken].parentTokenId IN
             getLineageLoop(tokenId, i + 1, parentTokenId,
                 [ancestors EXCEPT ![bioips[tokenId].generation - i] = parentTokenId])
    ELSE ancestors

getLineage(tokenId) ==
    getLineageLoop(tokenId, 0, tokenId, [k \in 1..bioips[tokenId].generation |-> 0])

\* ----------------------------------------------------------- getDescendants
\* A call that recurses without end runs out of gas and reverts.
OutOfGas == [ok |-> FALSE, ids |-> <<>>]

\* The second loop of _getDescendantsRecursive: each child followed by its own
\* descendants, children[i] onwards.
RECURSIVE CollectDescendants(_, _, _)
CollectDescendants(children, grandchildren, i) ==
    IF i > Len(children) THEN <<>>
    ELSE <<children[i]>> \o grandchildren[i].ids
             \o CollectDescendants(children, grandchildren, i + 1)

\* A child list without a cycle is at most MaxAssets deep; a deeper recursion
\* is inside a cycle and never returns.
RECURSIVE _getDescendantsRecursive(_, _)
_getDescendantsRecursive(tokenId, depth) ==
    IF depth > MaxAssets THEN OutOfGas
    ELSE LET children == bioips[tokenId].childTokenIds
             grandchildren == [i \in DOMAIN children |->
                                  _getDescendantsRecursive(children[i], depth + 1)]
         IN  IF \E i \in DOMAIN children : ~grandchildren[i].ok THEN OutOfGas
             ELSE [ok |-> TRUE, ids |-> CollectDescendants(children, grandchildren, 1)]

getDescendants(tokenId) == _getDescendantsRecursive(tokenId, 0)

\* ----------------------------------------------------------------- getBioIP
getBioIP(tokenId) == bioips[tokenId]

\* ------------------------------------------------ getAvailableLicenseTokens
\* Faulty variant: every token of the parent is returned, consumed or not.
AvailableFrom_All(allTokens, i) == SubSeq(allTokens, i, Len(allTokens))

\* The collecting loop from index i on: the tokens not consumed, in order.
RECURSIVE AvailableFrom(_, _)
AvailableFrom(allTokens, i) ==
    IF i > Len(allTokens) THEN <<>>
    ELSE IF ~licenseTokens[allTokens[i]].consumed
         THEN <<allTokens[i]>> \o AvailableFrom(allTokens, i + 1)
         ELSE AvailableFrom(allTokens, i + 1)

getAvailableLicenseTokens(parentTokenId) ==
    AvailableFrom(parentLicenseTokens[parentTokenId], 1)

\* ------------------------------------------------------- ConsentRegistry
\* contracts/ConsentRegistry.sol keeps consents (the fields owner, tokenId,
\* state, revokedAt and contentHash of an asset record here), permittedWallets,
\* deletionProofs and the ERC1155 balances.  Its grantConsent, revokeConsent,
\* burnAndDelete, revokePermission and checkConsent are the functions above;
\* the functions that differ follow.
ErrNotDeleted == "Not deleted"
ErrInvalidWallet == "Invalid wallet"

mintAndGrantConsent(sender, contentHash) ==
    /\ _tokenIds < MaxAssets
    /\ LET newTokenId == _tokenIds + 1 IN
        /\ _tokenIds' = newTokenId
        /\ balances' = Minted(sender, newTokenId)
        /\ bioips' = [bioips EXCEPT ![newTokenId] =
               [ZeroAsset EXCEPT !.owner = sender, !.tokenId = newTokenId,
                                 !.consentState = "ACTIVE", !.revokedAt = 0,
                                 !.contentHash = contentHash]]
    /\ UNCHANGED <<_licenseTokenIds, permittedWallets, deletionProofs, licenseTokens,
                   parentLicenseTokens, now>>

\* Faulty variant: the require on the zero address is missing.
ConsentRegistry_grantPermissionRevert_AnyWallet(sender, tokenId, wallet) ==
    IF ~(balanceOf(sender, tokenId) > 0) THEN ErrNotOwner
    ELSE IF bioips[tokenId].consentState # "ACTIVE" THEN ErrNotActive
    ELSE OK

\* ConsentRegistry.grantPermission: a third require rejects the zero address.
ConsentRegistry_grantPermissionRevert(sender, tokenId, wallet) ==
    IF ~(balanceOf(sender, tokenId) > 0) THEN ErrNotOwner
    ELSE IF bioips[tokenId].consentState # "ACTIVE" THEN ErrNotActive
    ELSE IF wallet = ZeroAddress THEN ErrInvalidWallet
    ELSE OK

ConsentRegistry_grantPermission(sender, tokenId, wallet) ==
    /\ ConsentRegistry_grantPermissionRevert(sender, tokenId, wallet) = OK
    /\ permittedWallets' = [permittedWallets EXCEPT ![tokenId][wallet] = TRUE]
    /\ UNCHANGED <<_tokenIds, _licenseTokenIds, bioips, balances, deletionProofs,
                   licenseTokens, parentLicenseTokens, now>>

\* Faulty variant: the attestation is accepted in any consent state.
verifyDeletionRevert_AnyState(tokenId) == OK

verifyDeletionRevert(tokenId) ==
    IF bioips[tokenId].consentState # "DELETED" THEN ErrNotDeleted ELSE OK

verifyDeletion(sender, tokenId) ==
    /\ verifyDeletionRevert(tokenId) = OK
    /\ Len(deletionProofs[tokenId].verifiers) < MaxVerifiers
    /\ deletionProofs' = [deletionProofs EXCEPT ![tokenId].verifiers = Append(@, sender)]
    /\ UNCHANGED <<_tokenIds, _licenseTokenIds, bioips, balances, permittedWallets,
                   licenseTokens, parentLicenseTokens, now>>

\* --------------------------------------- safeTransferFrom (inherited ERC1155)
\* The holder moves the one unit of token id to another wallet.
safeTransferFromRevert(sender, id) ==
    IF ~(balanceOf(sender, id) >= 1) THEN ErrBalance ELSE OK

safeTransferFrom(sender, to, id) ==
    /\ safeTransferFromRevert(sender, id) = OK
    /\ balances' = [Burned(sender, id) EXCEPT ![to][id] = @ + 1]
    /\ UNCHANGED <<_tokenIds, _licenseTokenIds, bioips, permittedWallets,
                   deletionProofs, licenseTokens, parentLicenseTokens, now>>

\* ------------------------------------------------------------ block.timestamp
Tick ==
    /\ now < MaxTime
    /\ now' = now + 1
    /\ UNCHANGED state

\* ---------------------------------------------------------- specifications
\* Wallets are interchangeable in the contract, so the first asset is minted by A.
MintSenders == IF _tokenIds = 0 THEN {"A"} ELSE Wallets

\* A committed transaction outside CallSpec: no receipt is kept.
Committed(transaction) ==
    transaction /\ UNCHANGED <<last, race, flow, codec, events, consentRegistry, managers>>

MintRoot ==
    \E s \in MintSenders, h \in Hashes, lt \in LicenseTermsIds :
        Committed(mintRootBioIP(s, h, lt))

MintDerivative ==
    \E s \in MintSenders, h \in Hashes : Committed(mintDerivativeBioIP(s, h))

MintLicenseTokens ==
    \E s \in Wallets, p \in TokenIds, r \in Wallets, n \in Amounts :
        Committed(mintLicenseTokens(s, p, r, n))

RegisterDerivative ==
    \E s \in Wallets, c \in TokenIds, l \in LicenseIds :
        Committed(registerDerivative(s, c, l))

GrantConsent == \E s \in Wallets, t \in TokenIds : Committed(grantConsent(s, t))

RevokeConsent == \E s \in Wallets, t \in TokenIds : Committed(revokeConsent(s, t))

BurnAndDelete == \E s \in Wallets, t \in TokenIds : Committed(burnAndDelete(s, t, 1, 3))

Next ==
    \/ MintRoot
    \/ MintDerivative
    \/ MintLicenseTokens
    \/ RegisterDerivative
    \/ GrantConsent
    \/ RevokeConsent
    \/ BurnAndDelete

Spec == Init /\ [][Next]_vars

\* ------------------------------------------------------------------ calls
\* A call and its receipt.  A reverted call writes nothing and its receipt holds
\* the revert reason only; a committed one logs its arguments.
Call(op, args, err, transaction) ==
    /\ last = Idle
    /\ last' = Result(op, IF err = OK THEN args ELSE <<>>, err)
    /\ IF err = OK THEN transaction ELSE UNCHANGED <<state, now>>
    /\ UNCHANGED <<race, flow, codec, events, consentRegistry, managers>>

CallMintRoot ==
    /\ _tokenIds < MaxCallAssets
    /\ \E s \in MintSenders, h \in Hashes, lt \in LicenseTermsIds :
           Call("mintRootBioIP", <<s, h, lt>>, OK, mintRootBioIP(s, h, lt))

CallMintDerivative ==
    /\ _tokenIds < MaxCallAssets
    /\ \E s \in MintSenders, h \in Hashes :
           Call("mintDerivativeBioIP", <<s, h>>, OK, mintDerivativeBioIP(s, h))

CallMintLicenseTokens ==
    \E s \in Wallets, p \in TokenIds, r \in Wallets, n \in Amounts :
        Call("mintLicenseTokens", <<s, p, r, n>>, mintLicenseTokensRevert(s, p),
             mintLicenseTokens(s, p, r, n))

CallRegisterDerivative ==
    \E s \in Wallets, c \in TokenIds, l \in LicenseIds :
        Call("registerDerivative", <<s, c, l>>, registerDerivativeRevert(s, c, l),
             registerDerivative(s, c, l))

CallGrantConsent ==
    \E s \in Wallets, t \in TokenIds :
        Call("grantConsent", <<s, t>>, grantConsentRevert(s, t), grantConsent(s, t))

CallRevokeConsent ==
    \E s \in Wallets, t \in TokenIds :
        Call("revokeConsent", <<s, t>>, revokeConsentRevert(s, t), revokeConsent(s, t))

CallBurnAndDelete ==
    \E s \in Wallets, t \in TokenIds, pi \in ProofInputs :
        Call("burnAndDelete", <<s, t, pi[1], pi[2]>>, burnAndDeleteRevert(s, t),
             burnAndDelete(s, t, pi[1], pi[2]))

\* The caller reads the receipt; the next call follows.
ReadReceipt ==
    /\ last # Idle
    /\ last' = Idle
    /\ UNCHANGED <<state, now, race, flow, codec, events, consentRegistry, managers>>

CallNext ==
    \/ CallMintRoot
    \/ CallMintDerivative
    \/ CallMintLicenseTokens
    \/ CallRegisterDerivative
    \/ CallGrantConsent
    \/ CallRevokeConsent
    \/ CallBurnAndDelete
    \/ ReadReceipt

CallSpec == Init /\ [][CallNext]_vars

\* ------------------------------------------------- consent and permissions
CallGrantPermission ==
    \E s \in Wallets, t \in TokenIds, w \in Delegates :
        Call("grantPermission", <<s, t, w>>, grantPermissionRevert(s, t),
             grantPermission(s, t, w))

CallRevokePermission ==
    \E s \in Wallets, t \in TokenIds, w \in Delegates :
        Call("revokePermission", <<s, t, w>>, revokePermissionRevert(s, t),
             revokePermission(s, t, w))

\* checkConsent is a view: its receipt holds the value it returns.
CallCheckConsent ==
    \E t \in TokenIds, w \in Addresses :
        Call("checkConsent", <<t, w, checkConsent(t, w)>>, OK, UNCHANGED <<state, now>>)

CallSafeTransferFrom ==
    \E s \in Wallets, to \in Wallets, t \in TokenIds :
        Call("safeTransferFrom", <<s, to, t>>, safeTransferFromRevert(s, t),
             safeTransferFrom(s, to, t))

\* A new block: the clock advances between calls.
NextBlock ==
    Tick /\ last = Idle /\ UNCHANGED <<last, race, flow, codec, events, consentRegistry, managers>>

ConsentNext ==
    \/ CallMintRoot
    \/ CallMintDerivative
    \/ CallGrantConsent
    \/ CallRevokeConsent
    \/ CallBurnAndDelete
    \/ CallGrantPermission
    \/ CallRevokePermission
    \/ CallSafeTransferFrom
    \/ CallCheckConsent
    \/ NextBlock
    \/ ReadReceipt

ConsentSpec == Init /\ [][ConsentNext]_vars

\* ------------------------------------------------------ owner-only functions
\* The six functions of BioIPRegistry that begin with the ownership require,
\* called by holders and by others, with mints and transfers of the ownership
\* token.
OwnerNext ==
    \/ CallMintRoot
    \/ CallMintLicenseTokens
    \/ CallGrantConsent
    \/ CallRevokeConsent
    \/ CallBurnAndDelete
    \/ CallGrantPermission
    \/ CallRevokePermission
    \/ CallSafeTransferFrom
    \/ ReadReceipt

OwnerSpec == Init /\ [][OwnerNext]_vars

\* ------------------------------------------------------------- root minting
\* mintRootBioIP takes any uint256 as licenseTermsId, zero included; the
\* licensing functions follow it.
AnyLicenseTermsIds == {0, 1}

CallMintRootBioIP ==
    /\ _tokenIds < MaxCallAssets
    /\ \E s \in MintSenders, h \in Hashes, lt \in AnyLicenseTermsIds :
           Call("mintRootBioIP", <<s, h, lt>>, OK, mintRootBioIP(s, h, lt))

RootNext ==
    \/ CallMintRootBioIP
    \/ CallMintDerivative
    \/ CallMintLicenseTokens
    \/ CallRegisterDerivative
    \/ ReadReceipt

RootSpec == Init /\ [][RootNext]_vars

\* ------------------------------------------------------ deletion in a lineage
\* The calls of CallSpec and grantPermission: assets with parents, children
\* and delegated permissions are burned.
BurnNext ==
    \/ CallMintRoot
    \/ CallMintDerivative
    \/ CallMintLicenseTokens
    \/ CallRegisterDerivative
    \/ CallGrantConsent
    \/ CallRevokeConsent
    \/ CallGrantPermission
    \/ CallBurnAndDelete
    \/ ReadReceipt

BurnSpec == Init /\ [][BurnNext]_vars

\* ---------------------------------------------------------- ConsentRegistry
\* The functions of ConsentRegistry as calls with receipts.
CallMintAndGrantConsent ==
    /\ _tokenIds < MaxCallAssets
    /\ \E s \in MintSenders, h \in Hashes :
           Call("mintAndGrantConsent", <<s, h>>, OK, mintAndGrantConsent(s, h))

CallConsentRegistryGrantPermission ==
    \E s \in Wallets, t \in TokenIds, w \in Delegates \cup {ZeroAddress} :
        Call("grantPermission", <<s, t, w>>,
             ConsentRegistry_grantPermissionRevert(s, t, w),
             ConsentRegistry_grantPermission(s, t, w))

CallVerifyDeletion ==
    \E s \in Wallets, t \in TokenIds :
        /\ verifyDeletionRevert(t) = OK => Len(deletionProofs[t].verifiers) < MaxVerifiers
        /\ Call("verifyDeletion", <<s, t>>, verifyDeletionRevert(t), verifyDeletion(s, t))

RegistryNext ==
    \/ CallMintAndGrantConsent
    \/ CallGrantConsent
    \/ CallRevokeConsent
    \/ CallBurnAndDelete
    \/ CallVerifyDeletion
    \/ CallConsentRegistryGrantPermission
    \/ CallRevokePermission
    \/ CallSafeTransferFrom
    \/ ReadReceipt

RegistrySpec == Init /\ [][RegistryNext]_vars

\* ------------------------------------------------- concurrent registration
\* Two registerDerivative transactions by one sender on one license token with
\* two distinct children, each passing every require in the state it is
\* submitted in.  The chain runs them one after the other, in either order.
SubmitRace(sender, licenseTokenId, c1, c2) ==
    /\ race = NoRace
    /\ c1 # c2
    /\ registerDerivativeRevert(sender, c1, licenseTokenId) = OK
    /\ registerDerivativeRevert(sender, c2, licenseTokenId) = OK
    /\ race' = [sender |-> sender, lic |-> licenseTokenId, child |-> <<c1, c2>>,
                res |-> <<"pending", "pending">>,
                kids |-> bioips[licenseTokens[licenseTokenId].parentTokenId].childTokenIds]
    /\ UNCHANGED <<state, now, last, flow, codec, events, consentRegistry, managers>>

MineRace(i) ==
    /\ race # NoRace
    /\ race.res[i] = "pending"
    /\ LET err == registerDerivativeRevert(race.sender, race.child[i], race.lic) IN
        /\ race' = [race EXCEPT !.res[i] = err]
        /\ IF err = OK
           THEN registerDerivative(race.sender, race.child[i], race.lic)
           ELSE UNCHANGED <<state, now>>
    /\ UNCHANGED <<last, flow, codec, events, consentRegistry, managers>>

\* Until the two transactions are submitted the registry is set up as in Spec.
Setup ==
    /\ race = NoRace
    /\ \/ MintRoot
       \/ MintDerivative
       \/ MintLicenseTokens
       \/ RegisterDerivative

Submit ==
    \E s \in Wallets, l \in LicenseIds, c1 \in TokenIds, c2 \in TokenIds :
        SubmitRace(s, l, c1, c2)

Mine == \E i \in DOMAIN race.res : MineRace(i)

RaceNext ==
    \/ Setup
    \/ Submit
    \/ Mine

RaceSpec == Init /\ [][RaceNext]_vars

\* ------------------------------------------------- CreateDerivativeFlow
\* pkg/bioip/bioip.go, BioIPManager.CreateDerivativeFlow: three manager calls
\* in sequence, each one contract transaction signed by signer, each returning
\* to the caller at the first error.  Between two steps the chain runs the
\* transactions of other sessions.  The manager methods stand for the contract
\* functions they name; their results are the values the contract returns.

\* The flow is called with a signer and a parent asset.
StartFlow(signer, parentTokenID) ==
    /\ flow.pc = "idle"
    /\ flow' = [NoFlow EXCEPT !.pc = "MintLicenseTokens", !.signer = signer,
                              !.parentTokenID = parentTokenID]
    /\ UNCHANGED <<state, now, last, race, codec, events, consentRegistry, managers>>

\* Faulty variant: the error of step 1 is dropped and the flow goes on with
\* the latest license token of the registry.
FlowFailedMint_Continue(err) ==
    [flow EXCEPT !.pc = "MintDerivativeBioIP", !.licenseTokenID = _licenseTokenIds]

\* if err != nil { return nil, ... } after step 1.
FlowFailedMint(err) == [flow EXCEPT !.pc = "failed", !.err = err]

\* Step 1: MintLicenseTokens(parentTokenID, signer.From, 1); licenseTokens[0].
FlowMintLicenseTokens ==
    /\ flow.pc = "MintLicenseTokens"
    /\ LET err == mintLicenseTokensRevert(flow.signer, flow.parentTokenID) IN
        IF err = OK
        THEN /\ mintLicenseTokens(flow.signer, flow.parentTokenID, flow.signer, 1)
             /\ flow' = [flow EXCEPT !.pc = "MintDerivativeBioIP",
                                     !.licenseTokenID = NewLicenseIds(1)[1]]
        ELSE /\ flow' = FlowFailedMint(err)
             /\ UNCHANGED <<state, now>>
    /\ UNCHANGED <<last, race, codec, events, consentRegistry, managers>>

\* Step 2: MintDerivativeBioIP, the shell without license terms.
FlowMintDerivativeBioIP ==
    /\ flow.pc = "MintDerivativeBioIP"
    /\ \E h \in Hashes : mintDerivativeBioIP(flow.signer, h)
    /\ flow' = [flow EXCEPT !.pc = "RegisterDerivative", !.childTokenID = _tokenIds + 1]
    /\ UNCHANGED <<last, race, codec, events, consentRegistry, managers>>

\* Step 3: RegisterDerivative(childTokenID, licenseTokenID).
FlowRegisterDerivative ==
    /\ flow.pc = "RegisterDerivative"
    /\ LET err == registerDerivativeRevert(flow.signer, flow.childTokenID,
                                           flow.licenseTokenID) IN
        IF err = OK
        THEN /\ registerDerivative(flow.signer, flow.childTokenID, flow.licenseTokenID)
             /\ flow' = [flow EXCEPT !.pc = "done"]
        ELSE /\ flow' = [flow EXCEPT !.pc = "failed", !.err = err]
             /\ UNCHANGED <<state, now>>
    /\ UNCHANGED <<last, race, codec, events, consentRegistry, managers>>

\* The callers of the other sessions' licensing transactions.
FlowOthers == Wallets \ {flow.signer}

OthersMintLicenseTokens ==
    \E s \in FlowOthers, p \in TokenIds, r \in FlowOthers :
        Committed(mintLicenseTokens(s, p, r, 1))

OthersRegisterDerivative ==
    \E s \in FlowOthers, c \in TokenIds, l \in LicenseIds :
        Committed(registerDerivative(s, c, l))

\* The parent's holder burns it while the flow is under way.
ParentBurnAndDelete ==
    /\ flow.pc # "idle"
    /\ \E s \in Wallets : Committed(burnAndDelete(s, flow.parentTokenID, 1, 3))

CallFlow == \E s \in Wallets, p \in TokenIds : StartFlow(s, p)

FlowNext ==
    \/ MintRoot
    \/ MintDerivative
    \/ OthersMintLicenseTokens
    \/ OthersRegisterDerivative
    \/ GrantConsent
    \/ RevokeConsent
    \/ ParentBurnAndDelete
    \/ CallFlow
    \/ FlowMintLicenseTokens
    \/ FlowMintDerivativeBioIP
    \/ FlowRegisterDerivative

FlowSpec == Init /\ [][FlowNext]_vars

\* ------------------------------------------------------------- biocid codec
\* The identifiers handed to the codec: each field drawn from well-formed and
\* malformed values, with and without "/" inside.
Repeat(c, n) == [i \in 1..n |-> c]

Versions == {<<"v", "1">>, <<"v", "2">>}

Chains == {<<"s", "t", "o", "r", "y">>, <<"b", "t", "c">>, <<>>}

Collections ==
    {<<"0", "x">> \o Repeat("a", AddressLen - 2),
     <<"0", "x", "/">> \o Repeat("a", AddressLen - 3),
     <<"0", "x", "a">>}

TokenIDs == {<<"1">>, <<"1", "/", "2">>, <<>>}

ContentHashes ==
    {Repeat("a", HashLen), <<"a", "/">> \o Repeat("a", HashLen - 2), <<"a">>}

ConsentSigs ==
    {<<"0", "x", "a">>, <<"0", "x", "/", "a">>, <<"0", "x", "a", "/", "/">>, <<"a">>, <<>>}

BioCIDs ==
    [Version : Versions, Chain : Chains, Collection : Collections, TokenID : TokenIDs,
     ContentHash : ContentHashes, ConsentSig : ConsentSigs]

\* The strings handed to ParseBioCID: up to MaxParts segments, empty or not,
\* joined by "/", behind the scheme, behind a damaged scheme, or bare.
Segments == {<<>>, <<"a">>}

Bodies == UNION {{Join(parts, Slash) : parts \in [1..n -> Segments]} : n \in 1..MaxParts}

Strings ==
    {Scheme \o body : body \in Bodies}
        \cup {SubSeq(Scheme, 1, Len(Scheme) - 1) \o body : body \in Bodies}
        \cup Bodies

\* The functions are pure: one call is looked at in each behaviour.
\* ParseBioCID(b.String()) for an identifier b, with b.Validate().
EncodeAndParse(b) ==
    /\ codec = NoCodec
    /\ codec' = [NoCodec EXCEPT !.op = "String", !.id = b, !.s = String(b),
                                  !.valid = Validate(b), !.res = ParseBioCID(String(b))]
    /\ UNCHANGED <<state, now, last, race, flow, events, consentRegistry, managers>>

\* ParseBioCID(s) for a string s.
Parse(s) ==
    /\ codec = NoCodec
    /\ codec' = [NoCodec EXCEPT !.op = "ParseBioCID", !.s = s, !.res = ParseBioCID(s)]
    /\ UNCHANGED <<state, now, last, race, flow, events, consentRegistry, managers>>

\* NewBioCID(...) and, when it returns an identifier, its String(); `id' keeps
\* the fields the caller asked to encode.
Contents == {"a", "b"}

New(chain, collection, tokenID, content, consentSig) ==
    LET r == NewBioCID(chain, collection, tokenID, content, consentSig)
        asked == [Version |-> V1, Chain |-> chain, Collection |-> collection,
                  TokenID |-> tokenID, ContentHash |-> Sum256Hex(content),
                  ConsentSig |-> consentSig]
    IN  /\ codec = NoCodec
        /\ codec' = [NoCodec EXCEPT !.op = "NewBioCID", !.id = asked, !.err = r.err,
                                      !.s = IF r.err = nil THEN String(r.id) ELSE <<>>,
                                      !.valid = Validate(asked)]
        /\ UNCHANGED <<state, now, last, race, flow, events, consentRegistry, managers>>

\* b.ToMultihash() and other.ToMultihash() for two identifiers that differ in
\* at most one field.
Others(b) ==
    {[b EXCEPT !.Version = v] : v \in Versions}
        \cup {[b EXCEPT !.Chain = v] : v \in Chains}
        \cup {[b EXCEPT !.Collection = v] : v \in Collections}
        \cup {[b EXCEPT !.TokenID = v] : v \in TokenIDs}
        \cup {[b EXCEPT !.ContentHash = v] : v \in ContentHashes}
        \cup {[b EXCEPT !.ConsentSig = v] : v \in ConsentSigs}

Digests(b, other) ==
    /\ codec = NoCodec
    /\ codec' = [NoCodec EXCEPT !.op = "ToMultihash", !.id = b, !.other = other,
                                  !.valid = Validate(b),
                                  !.err = ToMultihash(b).err,
                                  !.mh = ToMultihash(b).mh,
                                  !.otherMh = ToMultihash(other).mh]
    /\ UNCHANGED <<state, now, last, race, flow, events, consentRegistry, managers>>

CallEncodeAndParse == \E b \in BioCIDs : EncodeAndParse(b)

CallNew ==
    \E chain \in Chains, collection \in Collections \cup {<<>>}, tokenID \in TokenIDs,
       content \in Contents, consentSig \in ConsentSigs :
        New(chain, collection, tokenID, content, consentSig)

CallDigests == \E b \in BioCIDs : \E other \in Others(b) : Digests(b, other)

CallParse == \E s \in Strings : Parse(s)

CodecNext ==
    \/ CallEncodeAndParse
    \/ CallParse
    \/ CallNew
    \/ CallDigests

CodecSpec == Init /\ [][CodecNext]_vars

\* ------------------------------------------------- the two contracts together
\* The same call, with the same caller and arguments, in the same block, on
\* BioIPRegistry and on ConsentRegistry.  `result' is what ConsentRegistry
\* answers; each contract commits or reverts on its own.
Both(op, args, err, transaction, result) ==
    /\ IF err = OK THEN transaction ELSE UNCHANGED <<state, now>>
    /\ consentRegistry' =
           [result.cr EXCEPT !.call =
                          [op |-> op,
                           args |-> IF err = OK \/ result.err = OK THEN args ELSE <<>>,
                           bio |-> err, consent |-> result.err]]
    /\ UNCHANGED <<last, race, flow, codec, events, managers>>

\* The ids the calls name: those that can be minted here, and 0, never minted.
BothTokenIds == 0..MaxCallAssets

BothMint ==
    /\ _tokenIds < MaxCallAssets
    /\ consentRegistry._tokenIds < MaxCallAssets
    /\ \E s \in MintSenders, h \in Hashes, lt \in LicenseTermsIds :
           Both("mint", <<s, h>>, OK, mintRootBioIP(s, h, lt),
                ConsentRegistry_mintAndGrantConsent(consentRegistry, s, h))

BothGrantConsent ==
    \E s \in Wallets, t \in BothTokenIds :
        Both("grantConsent", <<s, t>>, grantConsentRevert(s, t), grantConsent(s, t),
             ConsentRegistry_grantConsent(consentRegistry, s, t))

BothRevokeConsent ==
    \E s \in Wallets, t \in BothTokenIds :
        Both("revokeConsent", <<s, t>>, revokeConsentRevert(s, t), revokeConsent(s, t),
             ConsentRegistry_revokeConsent(consentRegistry, s, t))

BothBurnAndDelete ==
    \E s \in Wallets, t \in BothTokenIds, pi \in {<<1, 3>>} :
        Both("burnAndDelete", <<s, t, pi[1], pi[2]>>, burnAndDeleteRevert(s, t),
             burnAndDelete(s, t, pi[1], pi[2]),
             ConsentRegistry_burnAndDelete(consentRegistry, s, t, pi[1], pi[2]))

BothGrantPermission ==
    \E s \in Wallets, t \in BothTokenIds, w \in Delegates \cup {ZeroAddress} :
        Both("grantPermission", <<s, t, w>>, grantPermissionRevert(s, t),
             grantPermission(s, t, w),
             ConsentRegistry_grantPermissionOf(consentRegistry, s, t, w))

BothRevokePermission ==
    \E s \in Wallets, t \in BothTokenIds, w \in Delegates \cup {ZeroAddress} :
        Both("revokePermission", <<s, t, w>>, revokePermissionRevert(s, t),
             revokePermission(s, t, w),
             ConsentRegistry_revokePermission(consentRegistry, s, t, w))

\* checkConsent is a view on both: the call keeps the two answers.
BothCheckConsent ==
    \E t \in BothTokenIds \ {0}, w \in Delegates \cup {ZeroAddress} :
        Both("checkConsent",
             <<t, w, checkConsent(t, w), ConsentRegistry_checkConsent(consentRegistry, t, w)>>,
             OK, UNCHANGED <<state, now>>, Done(consentRegistry))

BothNextBlock == Tick /\ UNCHANGED <<last, race, flow, codec, events, consentRegistry, managers>>

BothNext ==
    \/ BothMint
    \/ BothGrantConsent
    \/ BothRevokeConsent
    \/ BothBurnAndDelete
    \/ BothGrantPermission
    \/ BothRevokePermission
    \/ BothCheckConsent
    \/ BothNextBlock

BothSpec == Init /\ [][BothNext]_vars

\* ------------------------------------------------------------- Go clients
\* The chains the callers ask for: the configured ones and one that is not.
RequestedChains == {"story", "avalanche", "ethereum", "bitcoin"}

GetClient(o, chain, dialed) ==
    /\ managers' = [managers EXCEPT ![o] = getClient(@, chain, dialed)]
    /\ UNCHANGED <<state, now, last, race, flow, codec, events, consentRegistry>>

CallGetClient ==
    \E o \in Objects, chain \in RequestedChains, dialed \in BOOLEAN :
        GetClient(o, chain, dialed)

ManagerNext == CallGetClient

ManagerSpec == Init /\ [][ManagerNext]_vars

\* --------------------------------------------------------------- event log
\* The events a committed transaction emits, in the order of its emit
\* statements, read off the state it starts in.
Event(name, args) == [name |-> name, args |-> args]

Emitted(op, args) ==
    CASE op = "mintRootBioIP" ->
             <<Event("BioIPMinted", <<_tokenIds + 1, args[1], args[3]>>)>>
      [] op = "mintDerivativeBioIP" ->
             <<Event("BioIPMinted", <<_tokenIds + 1, args[1], 0>>)>>
      [] op = "mintLicenseTokens" ->
             [i \in 1..args[4] |->
                 Event("LicenseTokenMinted", <<NewLicenseIds(args[4])[i], args[2], args[3]>>)]
      [] op = "registerDerivative" ->
             <<Event("BioIPDerivativeCreated",
                     <<args[2], licenseTokens[args[3]].parentTokenId, args[3],
                       bioips[licenseTokens[args[3]].parentTokenId].generation + 1>>),
               Event("LicenseTokenConsumed", <<args[3], args[2]>>)>>
      [] op = "grantConsent" -> <<Event("ConsentGranted", <<args[2], args[1]>>)>>
      [] op = "revokeConsent" -> <<Event("ConsentRevoked", <<args[2], args[1], now>>)>>
      [] op = "burnAndDelete" -> <<Event("ContentDeleted", <<args[2], args[3], args[4]>>)>>
      [] OTHER -> <<>>

\* The log is recorded up to MaxEvents events.
MaxEvents == 6

\* A call whose events are recorded: a reverted call leaves the log as it is.
LogCall(op, args, err, transaction) ==
    /\ last = Idle
    /\ err = OK => Len(events) + Len(Emitted(op, args)) <= MaxEvents
    /\ UNCHANGED <<consentRegistry, managers>>
    /\ last' = Result(op, IF err = OK THEN args ELSE <<>>, err)
    /\ IF err = OK
       THEN transaction /\ events' = events \o Emitted(op, args)
       ELSE UNCHANGED <<state, now, events>>
    /\ UNCHANGED <<race, flow, codec>>

LogMintRoot ==
    /\ _tokenIds < MaxCallAssets
    /\ \E s \in MintSenders, h \in Hashes, lt \in LicenseTermsIds :
           LogCall("mintRootBioIP", <<s, h, lt>>, OK, mintRootBioIP(s, h, lt))

LogMintDerivative ==
    /\ _tokenIds < MaxCallAssets
    /\ \E s \in MintSenders, h \in Hashes :
           LogCall("mintDerivativeBioIP", <<s, h>>, OK, mintDerivativeBioIP(s, h))

LogMintLicenseTokens ==
    \E s \in Wallets, p \in TokenIds, r \in Wallets, n \in Amounts :
        LogCall("mintLicenseTokens", <<s, p, r, n>>, mintLicenseTokensRevert(s, p),
                mintLicenseTokens(s, p, r, n))

LogRegisterDerivative ==
    \E s \in Wallets, c \in TokenIds, l \in LicenseIds :
        LogCall("registerDerivative", <<s, c, l>>, registerDerivativeRevert(s, c, l),
                registerDerivative(s, c, l))

LogGrantConsent ==
    \E s \in Wallets, t \in TokenIds :
        LogCall("grantConsent", <<s, t>>, grantConsentRevert(s, t), grantConsent(s, t))

LogRevokeConsent ==
    \E s \in Wallets, t \in TokenIds :
        LogCall("revokeConsent", <<s, t>>, revokeConsentRevert(s, t), revokeConsent(s, t))

LogBurnAndDelete ==
    \E s \in Wallets, t \in TokenIds, pi \in ProofInputs :
        LogCall("burnAndDelete", <<s, t, pi[1], pi[2]>>, burnAndDeleteRevert(s, t),
                burnAndDelete(s, t, pi[1], pi[2]))

EventNext ==
    \/ LogMintRoot
    \/ LogMintDerivative
    \/ LogMintLicenseTokens
    \/ LogRegisterDerivative
    \/ LogGrantConsent
    \/ LogRevokeConsent
    \/ LogBurnAndDelete
    \/ ReadReceipt

EventSpec == Init /\ [][EventNext]_vars

\* ------------------------------------------------------------------ claims
Holds(w, t) == balanceOf(w, t) > 0

Existing == 1.._tokenIds

\* C1: once a license token is consumed it stays consumed with the same
\* consumedBy; every later registerDerivative naming it, by a caller who holds
\* the child, reverts with "License token already used"; and the token backs at
\* most one derivative: no further asset is ever linked through it.
C1_Rejected ==
    \A l \in LicenseIds : licenseTokens[l].consumed =>
        /\ \A w \in Wallets, c \in TokenIds :
               Holds(w, c) => registerDerivativeRevert(w, c, l) = ErrUsed
        /\ Cardinality({c \in TokenIds : bioips[c].licenseTokenId = l}) <= 1

C1_Permanent ==
    \A l \in LicenseIds : licenseTokens[l].consumed =>
        /\ licenseTokens'[l].consumed
        /\ licenseTokens'[l].consumedBy = licenseTokens[l].consumedBy
        /\ {c \in TokenIds : bioips'[c].licenseTokenId = l}
               \subseteq {c \in TokenIds : bioips[c].licenseTokenId = l}

C1_SingleUse == [](C1_Rejected) /\ [][C1_Permanent]_vars

\* A consumed token whose recipient holds a further asset, neither the consumer
\* nor the parent: the reuse attempt with a second child D.
C1_Witness ==
    \E l \in LicenseIds, d \in TokenIds :
        /\ licenseTokens[l].consumed
        /\ d # licenseTokens[l].consumedBy
        /\ d # licenseTokens[l].parentTokenId
        /\ Holds(licenseTokens[l].mintedFor, d)
        /\ bioips[licenseTokens[l].parentTokenId].consentState = "ACTIVE"

\* C2: two concurrent registerDerivative calls on one unconsumed license token
\* with two distinct children, each passing every precondition when issued: in
\* either order exactly one succeeds and the other fails with "License token
\* already used"; the token's consumedBy is the winner's child, only the
\* winner's child is appended to the parent's child list, and the token is
\* consumed exactly when one of the two calls has succeeded.
C2_Mined == race # NoRace /\ \A i \in DOMAIN race.res : race.res[i] # "pending"

C2_Winner(w, lo) ==
    LET parentTokenId == licenseTokens[race.lic].parentTokenId IN
        /\ race.res[w] = OK
        /\ race.res[lo] = ErrUsed
        /\ licenseTokens[race.lic].consumed
        /\ licenseTokens[race.lic].consumedBy = race.child[w]
        /\ bioips[race.child[w]].licenseTokenId = race.lic
        /\ bioips[race.child[lo]].licenseTokenId # race.lic
        /\ bioips[parentTokenId].childTokenIds = Append(race.kids, race.child[w])

C2_SingleConsumption ==
    /\ race # NoRace =>
           (licenseTokens[race.lic].consumed <=> \E i \in DOMAIN race.res : race.res[i] = OK)
    /\ C2_Mined => (C2_Winner(1, 2) \/ C2_Winner(2, 1))

\* Both calls mined, the second-listed one first: it won and the first lost.
C2_Witness == C2_Mined /\ C2_Winner(2, 1)

\* C3: a registerDerivative(child, l) that commits, with p the token's parent,
\* sets child.parentTokenId = p, child.generation = p.generation + 1,
\* child.licenseTokenId = l, child.licenseTermsId = p.licenseTermsId, appends
\* child once to p.childTokenIds, sets l.consumed and l.consumedBy = child, and
\* writes nothing else (p's generation and license terms are read before the step).
C3_Step(l) ==
    LET c == licenseTokens'[l].consumedBy
        p == licenseTokens[l].parentTokenId
        linked == [bioips[c] EXCEPT !.parentTokenId = p,
                                    !.generation = bioips[p].generation + 1,
                                    !.licenseTokenId = l,
                                    !.licenseTermsId = bioips[p].licenseTermsId]
    IN  /\ c \in Existing
        /\ p \in Existing
        /\ licenseTokens' = [licenseTokens EXCEPT ![l].consumed = TRUE, ![l].consumedBy = c]
        /\ \A t \in TokenIds \ {c, p} : bioips'[t] = bioips[t]
        /\ IF c = p
           THEN bioips'[c] = [linked EXCEPT !.childTokenIds = Append(@, c)]
           ELSE /\ bioips'[c] = linked
                /\ bioips'[p] = [bioips[p] EXCEPT !.childTokenIds = Append(@, c)]
        /\ UNCHANGED <<_tokenIds, _licenseTokenIds, balances, permittedWallets,
                       deletionProofs, parentLicenseTokens, now>>

C3_RegisterEffect ==
    [][\A l \in LicenseIds :
          (~licenseTokens[l].consumed /\ licenseTokens'[l].consumed) => C3_Step(l)]_vars

\* Root R with licenseTermsId 1 and a shell C registered under it:
\* C.generation = 1, C.licenseTermsId = 1, R.childTokenIds = <<C>>.
C3_Witness ==
    \E r \in TokenIds, c \in TokenIds :
        /\ r # c
        /\ bioips[r].hasLicense /\ bioips[r].generation = 0 /\ bioips[r].licenseTermsId = 1
        /\ ~bioips[c].hasLicense
        /\ bioips[c].parentTokenId = r
        /\ bioips[c].generation = 1
        /\ bioips[c].licenseTermsId = 1
        /\ bioips[r].childTokenIds = <<c>>
        /\ licenseTokens[bioips[c].licenseTokenId].consumedBy = c

\* C4: consumed license tokens and linked derivatives are paired one-to-one:
\* every consumed token's consumedBy is an asset whose licenseTokenId is that
\* token, whose parent is the token's parent and which is in that parent's
\* child list; every asset with a parent names a consumed token consumed by it.
C4_Paired ==
    /\ \A l \in LicenseIds : licenseTokens[l].consumed =>
          LET c == licenseTokens[l].consumedBy IN
              /\ c \in Existing
              /\ bioips[c].licenseTokenId = l
              /\ bioips[c].parentTokenId = licenseTokens[l].parentTokenId
              /\ \E i \in DOMAIN bioips[licenseTokens[l].parentTokenId].childTokenIds :
                     bioips[licenseTokens[l].parentTokenId].childTokenIds[i] = c
    /\ \A t \in TokenIds : bioips[t].parentTokenId # 0 =>
          /\ licenseTokens[bioips[t].licenseTokenId].consumed
          /\ licenseTokens[bioips[t].licenseTokenId].consumedBy = t

\* C5: checkConsent(tokenId, wallet) is true exactly when the asset's
\* consentState is ACTIVE and the wallet is the owner recorded in the asset or
\* has its permittedWallets flag set; it is false for every wallet, the
\* recorded owner included, in PENDING, REVOKED and DELETED and for ids never
\* minted; every call returns a boolean and none reverts.
C5_Allowed(t, w) ==
    /\ bioips[t].consentState = "ACTIVE"
    /\ bioips[t].owner = w \/ permittedWallets[t][w]

C6_Edge(t) ==
    LET from == bioips[t].consentState
        to == bioips'[t].consentState
    IN  from # to =>
            \/ /\ from = "PENDING" /\ to = "ACTIVE"
               /\ t = _tokenIds + 1 /\ _tokenIds' = t
               /\ last'.op \in {"mintRootBioIP", "mintDerivativeBioIP"}
            \/ from = "ACTIVE" /\ to = "REVOKED" /\ last'.op = "revokeConsent"
            \/ from = "REVOKED" /\ to = "ACTIVE" /\ last'.op = "grantConsent"
            \/ from \in {"ACTIVE", "REVOKED"} /\ to = "DELETED" /\ last'.op = "burnAndDelete"

C6_NoPending == \A t \in Existing : bioips[t].consentState # "PENDING"

C6_Transitions == [](C6_NoPending) /\ [][\A t \in TokenIds : C6_Edge(t)]_vars

\* The backward edge has just been taken: a grantConsent succeeded.
C6_Witness ==
    /\ last.op = "grantConsent"
    /\ last.err = OK
    /\ bioips[last.args[2]].consentState = "ACTIVE"

\* C7 as stated: whoever the caller is, registerDerivative on a minted token
\* and an existing child fails with "License token already used" if the token
\* is consumed, otherwise "License not for you" if it was minted for someone
\* else, otherwise "Parent consent revoked" if the parent is not ACTIVE.
C7_Expected(s, l) ==
    IF licenseTokens[l].consumed THEN ErrUsed
    ELSE IF licenseTokens[l].mintedFor # s THEN ErrNotForYou
    ELSE IF bioips[licenseTokens[l].parentTokenId].consentState # "ACTIVE"
         THEN ErrParentRevoked
    ELSE OK

C7_Precedence ==
    \A s \in Wallets, c \in Existing, l \in 1.._licenseTokenIds :
        C7_Expected(s, l) # OK => registerDerivativeRevert(s, c, l) = C7_Expected(s, l)

\* C7, amended: a caller who does not hold the child fails with "Not child
\* owner" before anything else; for a caller who holds the child the failures
\* come in the order already-used, not-for-you, parent-revoked; and a failing
\* registerDerivative changes nothing in the registry.
C7_Outcome ==
    \A s \in Wallets, c \in TokenIds, l \in LicenseIds :
        registerDerivativeRevert(s, c, l) =
            IF ~Holds(s, c) THEN ErrNotChildOwner ELSE C7_Expected(s, l)

C7_FailureUnchanged ==
    (last'.op = "registerDerivative" /\ last'.err # OK) => UNCHANGED state

C7_HolderPrecedence == [](C7_Outcome) /\ [][C7_FailureUnchanged]_vars

\* A holder's registration has just failed on the last of the three checks.
C7_Witness ==
    /\ last.op = "registerDerivative"
    /\ last.err = ErrParentRevoked

\* C8: mintLicenseTokens succeeds exactly when the caller holds the parent's
\* ownership token, the parent has a license and its consent is ACTIVE; a
\* caller who does not hold it fails with "Not BioIP owner", a holder fails
\* with "Parent has no license" or "Consent not active" otherwise (the latter
\* on a revoked root); a failing call changes nothing.
C8_Outcome ==
    \A s \in Wallets, p \in TokenIds :
        LET err == mintLicenseTokensRevert(s, p) IN
            /\ err = OK <=> (/\ Holds(s, p)
                             /\ bioips[p].hasLicense
                             /\ bioips[p].consentState = "ACTIVE")
            /\ ~Holds(s, p) => err = ErrNotOwner
            /\ (Holds(s, p) /\ ~bioips[p].hasLicense) => err = ErrNoLicense
            /\ (Holds(s, p) /\ bioips[p].hasLicense /\ bioips[p].consentState # "ACTIVE")
                   => err = ErrNotActive

C8_FailureUnchanged ==
    (last'.op = "mintLicenseTokens" /\ last'.err # OK) => UNCHANGED state

C8_MintGuard == [](C8_Outcome) /\ [][C8_FailureUnchanged]_vars

\* A mint from a revoked root has just been refused.
C8_Witness ==
    /\ last.op = "mintLicenseTokens"
    /\ last.err = ErrNotActive
    /\ \E r \in Existing : bioips[r].hasLicense /\ bioips[r].consentState = "REVOKED"

\* C9: for the holder of the ownership token, revokeConsent succeeds exactly
\* when the asset is ACTIVE and then sets REVOKED with revokedAt = now, and
\* grantConsent succeeds exactly when it is REVOKED and then sets ACTIVE with
\* revokedAt = 0, each changing nothing else of the asset; a failing revoke or
\* grant changes nothing; so revokedAt = 0 in every ACTIVE asset and
\* revokedAt # 0 in every REVOKED one.
C9_Outcome ==
    /\ \A s \in Wallets, t \in TokenIds : Holds(s, t) =>
          /\ revokeConsentRevert(s, t) = OK <=> bioips[t].consentState = "ACTIVE"
          /\ grantConsentRevert(s, t) = OK <=> bioips[t].consentState = "REVOKED"
    /\ \A t \in Existing :
          /\ bioips[t].consentState = "ACTIVE" => bioips[t].revokedAt = 0
          /\ bioips[t].consentState = "REVOKED" => bioips[t].revokedAt # 0

C9_Step ==
    /\ (last'.op = "revokeConsent" /\ last'.err = OK) =>
          /\ bioips[last'.args[2]].consentState = "ACTIVE"
          /\ bioips' = [bioips EXCEPT ![last'.args[2]] =
                 [@ EXCEPT !.consentState = "REVOKED", !.revokedAt = now]]
    /\ (last'.op = "grantConsent" /\ last'.err = OK) =>
          /\ bioips[last'.args[2]].consentState = "REVOKED"
          /\ bioips' = [bioips EXCEPT ![last'.args[2]] =
                 [@ EXCEPT !.consentState = "ACTIVE", !.revokedAt = 0]]
    /\ (last'.op \in {"revokeConsent", "grantConsent"} /\ last'.err # OK) =>
          UNCHANGED state

C9_RevokeGrant == [](C9_Outcome) /\ [][C9_Step]_vars

\* An asset revoked in a later block than it was minted in: revokedAt is the
\* time of the revocation.
C9_Witness ==
    /\ last.op = "revokeConsent"
    /\ last.err = OK
    /\ now > 1
    /\ bioips[last.args[2]].consentState = "REVOKED"
    /\ bioips[last.args[2]].revokedAt = now

\* C10: every minted asset that is not DELETED has a holder of its ownership
\* token, and that holder's burnAndDelete succeeds whether the asset is ACTIVE
\* or REVOKED; a successful burnAndDelete(t, root, count) sets consentState
\* DELETED and stores the proof (t, deletedAt = now, root, count, no verifiers).
C10_Outcome ==
    /\ \A t \in Existing : bioips[t].consentState # "DELETED" =>
          \E s \in Wallets : Holds(s, t)
    /\ \A s \in Wallets, t \in TokenIds : Holds(s, t) =>
          /\ bioips[t].consentState \in {"ACTIVE", "REVOKED"}
          /\ burnAndDeleteRevert(s, t) = OK

C10_Step ==
    (last'.op = "burnAndDelete" /\ last'.err = OK) =>
        LET t == last'.args[2] IN
            /\ Holds(last'.args[1], t)
            /\ bioips'[t].consentState = "DELETED"
            /\ deletionProofs'[t] =
                   [tokenId |-> t, deletedAt |-> now, merkleRoot |-> last'.args[3],
                    nodeCount |-> last'.args[4], verifiers |-> <<>>]

C10_BurnAndDelete == [](C10_Outcome) /\ [][C10_Step]_vars

\* An asset deleted while REVOKED, in a later block, with the second proof.
C10_Witness ==
    /\ last.op = "burnAndDelete"
    /\ last.err = OK
    /\ bioips[last.args[2]].consentState = "DELETED"
    /\ bioips[last.args[2]].revokedAt # 0
    /\ deletionProofs[last.args[2]].deletedAt > 1
    /\ deletionProofs[last.args[2]].merkleRoot = last.args[3]
    /\ deletionProofs[last.args[2]].nodeCount = 0

\* C11: once an asset is DELETED, a further burnAndDelete by the wallet that
\* owned it is refused as a duplicate deletion -- an error of its own kind,
\* which is neither success nor the ownership failure "Not BioIP owner" -- and
\* a refused burnAndDelete leaves the stored DeletionProof as it was.
C11_SecondBurn ==
    /\ \A t \in Existing : bioips[t].consentState = "DELETED" =>
          burnAndDeleteRevert(bioips[t].owner, t) \notin {OK, ErrNotOwner}
    /\ last.op = "burnAndDelete" /\ last.err # OK =>
          \A t \in Existing : bioips[t].consentState = "DELETED" =>
              deletionProofs[t].tokenId = t

\* C12: an asset has a DeletionProof exactly when its consentState is DELETED;
\* the proof is written in the step that moves the asset to DELETED and in no
\* other step, so it is created once and its tokenId, deletedAt, merkleRoot
\* and nodeCount are never overwritten.
C12_Fields(proof) == <<proof.tokenId, proof.deletedAt, proof.merkleRoot, proof.nodeCount>>

C12_HasProof(t) == C12_Fields(deletionProofs[t]) # C12_Fields(ZeroProof)

C12_ProofIffDeleted ==
    \A t \in TokenIds : C12_HasProof(t) <=> bioips[t].consentState = "DELETED"

C12_WrittenOnce ==
    \A t \in TokenIds :
        /\ C12_Fields(deletionProofs'[t]) # C12_Fields(deletionProofs[t]) =>
              /\ ~C12_HasProof(t)
              /\ bioips[t].consentState # "DELETED"
              /\ bioips'[t].consentState = "DELETED"
              /\ last'.op = "burnAndDelete"
        /\ (bioips[t].consentState # "DELETED" /\ bioips'[t].consentState = "DELETED") =>
              C12_Fields(deletionProofs'[t]) # C12_Fields(deletionProofs[t])

C12_ProofOnce == [](C12_ProofIffDeleted) /\ [][C12_WrittenOnce]_vars

\* A deleted asset whose former holder has just tried to delete it again, in a
\* later block: the proof still carries the time of the first deletion.
C12_Witness ==
    /\ last.op = "burnAndDelete"
    /\ last.err = ErrNotOwner
    /\ \E t \in Existing :
          /\ bioips[t].consentState = "DELETED"
          /\ deletionProofs[t].tokenId = t
          /\ deletionProofs[t].deletedAt < now

\* C13: every asset with a parent has generation = its parent's generation + 1,
\* whatever registrations its parent and further ancestors take part in later.
C13_GenerationChain ==
    \A t \in TokenIds : bioips[t].parentTokenId # 0 =>
        bioips[t].generation = bioips[bioips[t].parentTokenId].generation + 1

\* C14: for every asset, generation = 0 exactly when parentTokenId = 0.
C14_RootIffNoParent ==
    \A t \in TokenIds : bioips[t].generation = 0 <=> bioips[t].parentTokenId = 0

\* A shell registered under a root, next to another root: assets with and
\* without a parent side by side.
C14_Witness ==
    \E r \in Existing, c \in Existing, o \in Existing :
        /\ r # c /\ o # c /\ o # r
        /\ bioips[c].parentTokenId = r /\ bioips[c].generation = 1
        /\ bioips[r].parentTokenId = 0 /\ bioips[r].generation = 0
        /\ bioips[o].parentTokenId = 0 /\ bioips[o].hasLicense

\* C15: for every asset t, getDescendants(t) returns, without reverting, a
\* list that holds every token reachable from t through childTokenIds, each
\* exactly once, and nothing else.
C15_Children(t) == {bioips[t].childTokenIds[i] : i \in DOMAIN bioips[t].childTokenIds}

RECURSIVE C15_Closure(_)
C15_Closure(found) ==
    LET more == found \cup UNION {C15_Children(c) : c \in found} IN
        IF more = found THEN found ELSE C15_Closure(more)

C15_Reachable(t) == C15_Closure(C15_Children(t))

C15_ExactlyOnce(ids) == \A i, j \in DOMAIN ids : ids[i] = ids[j] => i = j

C15_Descendants ==
    \A t \in Existing :
        /\ getDescendants(t).ok
        /\ C15_ExactlyOnce(getDescendants(t).ids)
        /\ {getDescendants(t).ids[i] : i \in DOMAIN getDescendants(t).ids} = C15_Reachable(t)

\* C16: for every asset t, getLineage(t) has length t.generation; its first
\* element is t's parent, each further element is the parent of the one before
\* it, and its last element has no parent.
C16_Lineage ==
    \A t \in Existing :
        LET ancestors == getLineage(t) IN
            /\ Len(ancestors) = bioips[t].generation
            /\ Len(ancestors) > 0 =>
                  /\ ancestors[1] = bioips[t].parentTokenId
                  /\ \A k \in 1..(Len(ancestors) - 1) :
                         ancestors[k + 1] = bioips[ancestors[k]].parentTokenId
                  /\ bioips[ancestors[Len(ancestors)]].parentTokenId = 0

\* C17: a derivative can be the parent of a further derivative: whoever holds
\* a registered derivative whose consent is ACTIVE can mint a license token
\* from it, the first step of the derivative flow with the derivative as parent.
C17_DerivativeAsParent ==
    \A c \in Existing, w \in Wallets :
        (/\ bioips[c].parentTokenId # 0
         /\ bioips[c].consentState = "ACTIVE"
         /\ Holds(w, c)) => mintLicenseTokensRevert(w, c) = OK

\* ---------------------------------------------------------------------- C18
\* C18: CreateDerivativeFlow runs mintLicenseTokens(parent, signer, 1), then
\* mintDerivativeBioIP, then registerDerivative as three separate transactions
\* and stops at the first one that fails.  Whenever the flow has failed,
\* whatever the other sessions did between its steps, its records are not half
\* linked: its license token (if step 1 minted one) is not consumed, its shell
\* (if step 2 minted one) has parentTokenId 0, generation 0 and no license
\* token, and no asset lists the shell as a child; a flow that failed at
\* step 1 minted no shell, and a failed flow takes no further step.
C18_TokenUnconsumed ==
    flow.licenseTokenID # 0 =>
        /\ ~licenseTokens[flow.licenseTokenID].consumed
        /\ licenseTokens[flow.licenseTokenID].consumedBy = 0
        /\ licenseTokens[flow.licenseTokenID].mintedFor = flow.signer
        /\ licenseTokens[flow.licenseTokenID].parentTokenId = flow.parentTokenID

C18_ShellUnlinked ==
    flow.childTokenID # 0 =>
        /\ bioips[flow.childTokenID].parentTokenId = 0
        /\ bioips[flow.childTokenID].generation = 0
        /\ bioips[flow.childTokenID].licenseTokenId = 0
        /\ \A p \in TokenIds : \A i \in DOMAIN bioips[p].childTokenIds :
               bioips[p].childTokenIds[i] # flow.childTokenID

C18_Failed ==
    flow.pc = "failed" =>
        /\ C18_TokenUnconsumed
        /\ C18_ShellUnlinked
        /\ flow.licenseTokenID = 0 => flow.childTokenID = 0
        /\ flow.childTokenID # 0 => flow.err \in {ErrUsed, ErrNotForYou, ErrParentRevoked,
                                                  ErrNotChildOwner}

C18_Stopped == flow.pc = "failed" => flow' = flow

C19_TransferMovesAccess ==
    (last.op = "safeTransferFrom" /\ last.err = OK /\ last.args[1] # last.args[2]) =>
        LET A == last.args[1]
            B == last.args[2]
            tokenId == last.args[3]
        IN  (/\ bioips[tokenId].consentState = "ACTIVE"
             /\ \A a \in Addresses : ~permittedWallets[tokenId][a])
            => (checkConsent(tokenId, B) /\ ~checkConsent(tokenId, A))

\* ---------------------------------------------------------------------- C20
\* C20: revokePermission has no consent-state precondition: in every consent
\* state of an asset (ACTIVE, REVOKED and DELETED) its owner can revoke a
\* delegated permission, i.e. for every permission that is set on an asset
\* there is a wallet whose revokePermission call passes every require.
C20_OwnerMayAlwaysRevoke ==
    \A tokenId \in Existing, identity \in Delegates :
        (/\ bioips[tokenId].consentState \in {"ACTIVE", "REVOKED", "DELETED"}
         /\ permittedWallets[tokenId][identity])
        => \E owner \in Wallets : revokePermissionRevert(owner, tokenId) = OK

\* ---------------------------------------------------------------------- C21
\* C21: grantPermission(tokenId, identity) sets the delegated-access flag if
\* and only if the caller is the asset's owner (the holder of its ownership
\* token) and the asset's consentState is ACTIVE, whatever the identity; in
\* every other case it fails and the permission flags are unchanged.
C21_OwnerAndActive ==
    \A s \in Wallets, t \in TokenIds, identity \in Addresses :
        /\ grantPermissionRevert(s, t) = OK
               <=> (Holds(s, t) /\ bioips[t].consentState = "ACTIVE")
        /\ ConsentRegistry_grantPermissionRevert(s, t, identity) = OK
               <=> (Holds(s, t) /\ bioips[t].consentState = "ACTIVE")

\* C21, amended: grantPermission(tokenId, identity) sets the flag if and only
\* if the caller holds the asset's ownership token, the asset's consentState is
\* ACTIVE and, in ConsentRegistry, identity is not the zero address
\* (BioIPRegistry has no such check); in every other case (a caller who is not
\* the holder, a state PENDING, REVOKED or DELETED, or the zero address in
\* ConsentRegistry) it fails and the registry, permission flags included, is
\* unchanged.
C21_Outcome ==
    \A s \in Wallets, t \in TokenIds, identity \in Addresses :
        /\ grantPermissionRevert(s, t) = OK
               <=> (Holds(s, t) /\ bioips[t].consentState = "ACTIVE")
        /\ ConsentRegistry_grantPermissionRevert(s, t, identity) = OK
               <=> (/\ Holds(s, t)
                    /\ bioips[t].consentState = "ACTIVE"
                    /\ identity # ZeroAddress)

C21_Step ==
    /\ (last'.op = "grantPermission" /\ last'.err = OK) =>
          /\ Holds(last'.args[1], last'.args[2])
          /\ bioips[last'.args[2]].consentState = "ACTIVE"
          /\ last'.args[3] # ZeroAddress
          /\ permittedWallets' =
                 [permittedWallets EXCEPT ![last'.args[2]][last'.args[3]] = TRUE]
          /\ UNCHANGED <<bioips, balances, deletionProofs>>
    /\ (last'.op = "grantPermission" /\ last'.err # OK) =>
          /\ permittedWallets' = permittedWallets
          /\ UNCHANGED state

C21_GrantPermission == [](C21_Outcome) /\ [][C21_Step]_vars

\* The holder of an ACTIVE asset has just been refused a grant to the zero
\* address, after a grant to a delegate was recorded on the same asset.
C21_Witness ==
    /\ last.op = "grantPermission"
    /\ last.err = ErrInvalidWallet
    /\ \E t \in Existing, d \in Delegates :
          /\ bioips[t].consentState = "ACTIVE"
          /\ permittedWallets[t][d]
          /\ ~permittedWallets[t][ZeroAddress]

\* ---------------------------------------------------------------------- C22
\* C22: a caller who is not the owner of an asset (does not hold its ownership
\* token) cannot change anything about it: grantConsent, revokeConsent,
\* burnAndDelete, grantPermission, revokePermission and mintLicenseTokens
\* issued by such a caller all fail with "Not BioIP owner", in every reachable
\* state, and the failing call leaves consent state, revokedAt, permissions,
\* deletion proofs and license tokens unchanged; a call of one of the six that
\* commits was issued by the holder.
C22_OwnerOnly == {"grantConsent", "revokeConsent", "burnAndDelete", "grantPermission",
                  "revokePermission", "mintLicenseTokens"}

C22_Outcome ==
    \A s \in Wallets, t \in TokenIds : ~Holds(s, t) =>
        /\ grantConsentRevert(s, t) = ErrNotOwner
        /\ revokeConsentRevert(s, t) = ErrNotOwner
        /\ burnAndDeleteRevert(s, t) = ErrNotOwner
        /\ grantPermissionRevert(s, t) = ErrNotOwner
        /\ revokePermissionRevert(s, t) = ErrNotOwner
        /\ mintLicenseTokensRevert(s, t) = ErrNotOwner

C22_Step ==
    /\ (last'.op \in C22_OwnerOnly /\ last'.err = ErrNotOwner) =>
          /\ bioips' = bioips
          /\ permittedWallets' = permittedWallets
          /\ deletionProofs' = deletionProofs
          /\ licenseTokens' = licenseTokens
          /\ UNCHANGED state
    /\ (last'.op \in C22_OwnerOnly /\ last'.err = OK) =>
          Holds(last'.args[1], last'.args[2])

C22_Unauthorized == [](C22_Outcome) /\ [][C22_Step]_vars

\* A call has just been refused as unauthorized while an asset with a
\* permission set is held by a wallet other than the one that minted it: the
\* minter is no longer its owner.
C22_Witness ==
    /\ last.op \in C22_OwnerOnly
    /\ last.err = ErrNotOwner
    /\ \E t \in Existing, s \in Wallets :
          /\ Holds(s, t)
          /\ bioips[t].owner # s
          /\ \E d \in Delegates : permittedWallets[t][d]

\* ---------------------------------------------------------------------- C23
\* C23: in every reachable state and for every license token, consumed is
\* false if and only if consumedBy is 0.
C23_ConsumedIffConsumer ==
    \A l \in LicenseIds :
        ~licenseTokens[l].consumed <=> licenseTokens[l].consumedBy = 0

\* Both kinds of token exist: one consumed by a child, one still available.
C23_Witness ==
    \E l1 \in 1.._licenseTokenIds, l2 \in 1.._licenseTokenIds :
        /\ licenseTokens[l1].consumed
        /\ licenseTokens[l1].consumedBy \in Existing
        /\ ~licenseTokens[l2].consumed

\* ---------------------------------------------------------------------- C24
\* C24: a successful mintLicenseTokens(parentId, receiver, count) creates
\* exactly count new license tokens whose ids are pairwise distinct and were
\* never used before (the count ids after the counter, whose slots were still
\* zero), each with parentTokenId = parentId, mintedFor = receiver, consumed
\* false and consumedBy 0, appends them to the parent's token list, and leaves
\* every previously existing license token and every asset unchanged.
C24_Step ==
    (last'.op = "mintLicenseTokens" /\ last'.err = OK) =>
        LET parentId == last'.args[2]
            receiver == last'.args[3]
            count == last'.args[4]
            new == (_licenseTokenIds + 1)..(_licenseTokenIds + count)
        IN  /\ _licenseTokenIds' = _licenseTokenIds + count
            /\ Cardinality(new) = count
            /\ Len(NewLicenseIds(count)) = count
            /\ \A i \in 1..count, j \in 1..count :
                   i # j => NewLicenseIds(count)[i] # NewLicenseIds(count)[j]
            /\ {NewLicenseIds(count)[i] : i \in 1..count} = new
            /\ \A l \in new :
                   /\ licenseTokens[l] = ZeroLicenseToken
                   /\ licenseTokens'[l] =
                          [tokenId |-> l, parentTokenId |-> parentId, mintedFor |-> receiver,
                           consumed |-> FALSE, consumedBy |-> 0]
            /\ \A l \in LicenseIds \ new : licenseTokens'[l] = licenseTokens[l]
            /\ parentLicenseTokens' = [parentLicenseTokens EXCEPT
                   ![parentId] = @ \o [i \in 1..count |-> _licenseTokenIds + i]]
            /\ UNCHANGED <<bioips, balances, _tokenIds>>

C24_FreshTokens == [][C24_Step]_vars

\* A token has just been minted while an earlier one, already consumed, exists.
C24_Witness ==
    /\ last.op = "mintLicenseTokens"
    /\ last.err = OK
    /\ last.args[4] = 1
    /\ _licenseTokenIds = 2
    /\ licenseTokens[1].consumed
    /\ licenseTokens[2] = [tokenId |-> 2, parentTokenId |-> last.args[2],
                           mintedFor |-> last.args[3], consumed |-> FALSE, consumedBy |-> 0]

\* ---------------------------------------------------------------------- C25
\* C25: in every reachable state and for every parent id,
\* getAvailableLicenseTokens(parentId) returns exactly the minted license
\* tokens L with L.parentTokenId = parentId and L.consumed = false: each such
\* token once, and no consumed token and no token bound to another parent.
C25_Available ==
    \A parentId \in TokenIds :
        LET available == getAvailableLicenseTokens(parentId) IN
            /\ {available[i] : i \in DOMAIN available} =
                   {l \in 1.._licenseTokenIds :
                        /\ licenseTokens[l].parentTokenId = parentId
                        /\ ~licenseTokens[l].consumed}
            /\ \A i \in DOMAIN available, j \in DOMAIN available :
                   i # j => available[i] # available[j]

\* A parent with one consumed and one available token: only the second is
\* returned.
C25_Witness ==
    \E parentId \in Existing :
        /\ Len(parentLicenseTokens[parentId]) = 2
        /\ Len(getAvailableLicenseTokens(parentId)) = 1
        /\ licenseTokens[parentLicenseTokens[parentId][1]].consumed

\* ---------------------------------------------------------------------- C26
\* C26: every asset created by mintRootBioIP is stored with generation 0,
\* consentState ACTIVE, hasLicense true and a non-zero licenseTermsId, for
\* every argument the function accepts.
C26_Step ==
    (last'.op = "mintRootBioIP" /\ last'.err = OK) =>
        LET root == bioips'[_tokenIds'] IN
            /\ _tokenIds' = _tokenIds + 1
            /\ root.generation = 0
            /\ root.consentState = "ACTIVE"
            /\ root.hasLicense
            /\ root.licenseTermsId # 0

C26_RootStored == [][C26_Step]_vars

\* ---------------------------------------------------------------------- C27
\* C27: burnAndDelete(t) does not remove t's row: afterwards getBioIP(t)
\* returns the record with owner, contentHash, parentTokenId, childTokenIds,
\* generation, licenseTokenId and licenseTermsId (and every field other than
\* consentState) unchanged, and no other asset changes: the consent state,
\* permissions and lineage fields of t's parent, of t's descendants and of
\* every other asset are as before.
C27_Step ==
    (last'.op = "burnAndDelete" /\ last'.err = OK) =>
        LET t == last'.args[2] IN
            /\ bioips'[t] = [getBioIP(t) EXCEPT !.consentState = "DELETED"]
            /\ bioips'[t].owner # ZeroAddress
            /\ bioips'[t].tokenId = t
            /\ \A u \in TokenIds \ {t} : bioips'[u] = getBioIP(u)
            /\ permittedWallets' = permittedWallets
            /\ UNCHANGED <<licenseTokens, parentLicenseTokens, _tokenIds>>

C27_NotRowRemoval == [][C27_Step]_vars

\* A parent with a registered child and a delegated permission has just been
\* burned: its record and the child's link are still there.
C27_Witness ==
    /\ last.op = "burnAndDelete"
    /\ last.err = OK
    /\ LET t == last.args[2] IN
          /\ getBioIP(t).consentState = "DELETED"
          /\ getBioIP(t).hasLicense
          /\ \E d \in Delegates : permittedWallets[t][d]
          /\ \E c \in Existing \ {t} :
                /\ getBioIP(c).parentTokenId = t
                /\ getBioIP(t).childTokenIds = <<c>>
                /\ getBioIP(c).consentState = "ACTIVE"

\* ---------------------------------------------------------------------- C28
\* C28: in ConsentRegistry, verifyDeletion(tokenId) succeeds only when the
\* asset's state is DELETED (and always then); each successful call appends the
\* caller to the end of the proof's verifiers and changes nothing else; over
\* any sequence of operations verifiers only grows, existing entries being
\* never removed or reordered; and verifiers is empty before the asset is
\* deleted.
C28_Outcome ==
    /\ \A t \in TokenIds :
          verifyDeletionRevert(t) = OK <=> bioips[t].consentState = "DELETED"
    /\ \A t \in TokenIds :
          bioips[t].consentState # "DELETED" => deletionProofs[t].verifiers = <<>>

C28_Step ==
    /\ (last'.op = "verifyDeletion" /\ last'.err = OK) =>
          /\ bioips[last'.args[2]].consentState = "DELETED"
          /\ deletionProofs' = [deletionProofs EXCEPT
                 ![last'.args[2]].verifiers = Append(@, last'.args[1])]
          /\ UNCHANGED <<bioips, balances, permittedWallets, _tokenIds>>
    /\ (last'.op = "verifyDeletion" /\ last'.err # OK) => UNCHANGED state
    /\ \A t \in TokenIds :
          /\ Len(deletionProofs'[t].verifiers) >= Len(deletionProofs[t].verifiers)
          /\ SubSeq(deletionProofs'[t].verifiers, 1, Len(deletionProofs[t].verifiers))
                 = deletionProofs[t].verifiers

C28_VerifiersAppendOnly == [](C28_Outcome) /\ [][C28_Step]_vars

\* A second node has just attested the deletion of an asset: it comes after
\* the first one.
C28_Witness ==
    /\ last.op = "verifyDeletion"
    /\ last.err = OK
    /\ Len(deletionProofs[last.args[2]].verifiers) = 2
    /\ deletionProofs[last.args[2]].verifiers[2] = last.args[1]
    /\ deletionProofs[last.args[2]].verifiers[1] # last.args[1]
    /\ C12_HasProof(last.args[2])

\* ---------------------------------------------------------------------- C29
\* C29: identifier round trip: for every valid identifier x (x.Validate() is
\* nil), ParseBioCID(x.String()) succeeds and yields an identifier equal to x
\* in all six fields.
C29_RoundTrip ==
    (codec.op = "String" /\ codec.valid = nil) =>
        /\ codec.res.err = nil
        /\ Equal(codec.res.id, codec.id)

\* ---------------------------------------------------------------------- C30
\* C30: ParseBioCID fails exactly when the "biocid://" scheme prefix is
\* missing or fewer than five "/"-delimited segments follow it; otherwise it
\* succeeds, the first five segments are Version, Chain, Collection, TokenID
\* and ContentHash, and ConsentSig is all the remaining segments re-joined with
\* "/": the input is the scheme, the five fields and, if a sixth segment
\* exists, the signature, each separated by one "/".
C30_HasScheme(s) ==
    /\ Len(s) >= Len(Scheme)
    /\ \A i \in 1..Len(Scheme) : s[i] = Scheme[i]

C30_SegmentCount(s) ==
    Cardinality({i \in (Len(Scheme) + 1)..Len(s) : s[i] = "/"}) + 1

C30_NoSlash(field) == \A i \in DOMAIN field : field[i] # "/"

C30_ParseOutcome ==
    codec.op \in {"String", "ParseBioCID"} =>
        LET s == codec.s
            b == codec.res.id
            five == Scheme \o b.Version \o <<"/">> \o b.Chain \o <<"/">> \o b.Collection
                        \o <<"/">> \o b.TokenID \o <<"/">> \o b.ContentHash
        IN  /\ codec.res.err # nil
                   <=> (~C30_HasScheme(s) \/ C30_SegmentCount(s) < 5)
            /\ codec.res.err = nil =>
                   /\ C30_NoSlash(b.Version) /\ C30_NoSlash(b.Chain)
                   /\ C30_NoSlash(b.Collection) /\ C30_NoSlash(b.TokenID)
                   /\ C30_NoSlash(b.ContentHash)
                   /\ IF C30_SegmentCount(s) = 5
                      THEN s = five /\ b.ConsentSig = <<>>
                      ELSE s = five \o <<"/">> \o b.ConsentSig

\* A string whose signature holds "/" characters has been parsed.
C30_Witness ==
    /\ codec.op = "ParseBioCID"
    /\ codec.res.err = nil
    /\ C30_SegmentCount(codec.s) = MaxParts
    /\ \E i \in DOMAIN codec.res.id.ConsentSig : codec.res.id.ConsentSig[i] = "/"

\* The fields the encoding is specified to reject.
C31_Malformed(b) ==
    \/ b.Chain = <<>> \/ b.Collection = <<>> \/ b.TokenID = <<>> \/ b.ContentHash = <<>>
    \/ b.Chain \notin validChains
    \/ Len(b.ContentHash) # HashLen
    \/ ~(HasPrefix(b.Collection, <<"0", "x">>) /\ Len(b.Collection) = AddressLen)

\* C31: encoding an identifier (NewBioCID followed by String, or String on an
\* identifier at hand) fails with an error and produces no string whenever a
\* required field is empty, the chain is unsupported, the content hash has
\* not the digest length or the collection is not address-shaped.
C31_EncodeValidates ==
    (codec.op \in {"String", "NewBioCID"} /\ C31_Malformed(codec.id)) =>
        /\ codec.err # nil
        /\ codec.s = <<>>

\* C32: the lookup key is a function of the identifier and identifier -> digest
\* is 1:1: two identifiers have the same digest exactly when all six fields
\* match (Equal).
C32_DigestOneToOne ==
    codec.op = "ToMultihash" =>
        /\ codec.err = nil
        /\ codec.mh = ToMultihash(codec.id).mh
        /\ (codec.mh = codec.otherMh) <=> Equal(codec.id, codec.other)

\* C33: the lineage is acyclic in every reachable state: no asset is its own
\* parent, none is reachable from itself through childTokenIds, and
\* getDescendants returns for every asset.
C33_Acyclic ==
    \A t \in Existing :
        /\ bioips[t].parentTokenId # t
        /\ t \notin C15_Reachable(t)
        /\ getDescendants(t).ok

\* Parent and child records agree, and a child is listed once.
C34_Agree ==
    \A p, c \in Existing :
        LET listed == {i \in DOMAIN bioips[p].childTokenIds : bioips[p].childTokenIds[i] = c}
        IN  /\ (listed # {}) <=> (bioips[c].parentTokenId = p)
            /\ Cardinality(listed) <= 1

\* The link of a registered derivative is not rewritten.
C34_Stable ==
    \A c \in Existing :
        bioips[c].parentTokenId # 0 =>
            /\ bioips'[c].parentTokenId = bioips[c].parentTokenId
            /\ bioips'[c].generation = bioips[c].generation
            /\ bioips'[c].licenseTokenId = bioips[c].licenseTokenId

\* C34: in every reachable state c is in p.childTokenIds exactly when
\* c.parentTokenId = p, and at most once; the parentTokenId, generation and
\* licenseTokenId set by a registration are never changed afterwards.
C34_OneParent == [](C34_Agree) /\ [][C34_Stable]_vars

\* The license tokens minted so far, and the asset a token was minted from.
C35_Tokens == 1.._licenseTokenIds

C35_Parent(l) == licenseTokens[l].parentTokenId

\* The recipient of token l can consume it with whatever asset it holds.
C35_CanConsume(l) ==
    \A c \in Existing :
        Holds(licenseTokens[l].mintedFor, c) =>
            registerDerivativeRevert(licenseTokens[l].mintedFor, c, l) = OK

\* While the parent is REVOKED or DELETED no registerDerivative with the
\* token succeeds.
C35_Outcome ==
    \A l \in C35_Tokens :
        (/\ ~licenseTokens[l].consumed
         /\ bioips[C35_Parent(l)].consentState \in {"REVOKED", "DELETED"}) =>
            \A s \in Wallets, c \in TokenIds : registerDerivativeRevert(s, c, l) # OK

C35_Step ==
    \A l \in C35_Tokens :
        /\ (/\ ~licenseTokens[l].consumed
            /\ bioips[C35_Parent(l)].consentState \in {"REVOKED", "DELETED"}) =>
               /\ licenseTokens'[l] = licenseTokens[l]
               /\ bioips[C35_Parent(l)].consentState = "DELETED" =>
                      bioips'[C35_Parent(l)].consentState = "DELETED"
        /\ (/\ last'.op = "grantConsent" /\ last'.err = OK
            /\ last'.args[2] = C35_Parent(l)
            /\ ~licenseTokens[l].consumed) =>
               /\ bioips[C35_Parent(l)].consentState = "REVOKED"
               /\ bioips'[C35_Parent(l)].consentState = "ACTIVE"
               /\ C35_CanConsume(l)'

\* C35: an unconsumed license token follows its parent's consent: while the
\* parent is REVOKED every registerDerivative with it fails and it stays
\* unconsumed; when the parent's owner re-grants consent the same token can
\* be consumed; once the parent is DELETED the token is never consumed.
C35_TokenFollowsConsent == [](C35_Outcome) /\ [][C35_Step]_vars

\* The parent's consent has just been re-granted while a token minted from it
\* is unconsumed and its recipient holds an asset to register.
C35_Witness ==
    /\ last.op = "grantConsent" /\ last.err = OK
    /\ \E l \in C35_Tokens :
          /\ C35_Parent(l) = last.args[2]
          /\ ~licenseTokens[l].consumed
          /\ \E c \in Existing : Holds(licenseTokens[l].mintedFor, c)
          /\ C35_CanConsume(l)

\* A delegated wallet is denied unless the asset is ACTIVE, and has access
\* while it is.
C36_Outcome ==
    \A t \in Existing, w \in Addresses :
        /\ bioips[t].consentState # "ACTIVE" => ~checkConsent(t, w)
        /\ (bioips[t].consentState = "ACTIVE" /\ permittedWallets[t][w]) => checkConsent(t, w)

C36_Step ==
    /\ (last'.op \in {"revokeConsent", "grantConsent", "burnAndDelete"} /\ last'.err = OK) =>
          permittedWallets' = permittedWallets
    /\ \A t \in Existing, w \in Addresses :
          /\ (last'.op = "revokeConsent" /\ last'.err = OK /\ last'.args[2] = t) =>
                ~checkConsent(t, w)'
          /\ (last'.op = "grantConsent" /\ last'.err = OK /\ last'.args[2] = t
                  /\ permittedWallets[t][w]) =>
                /\ ~checkConsent(t, w)
                /\ checkConsent(t, w)'

\* C36: revokeConsent, grantConsent and burnAndDelete change no delegated
\* permission flag; a wallet delegated while the asset was ACTIVE is denied
\* by checkConsent while the asset is REVOKED and has access again, without a
\* new grantPermission, as soon as consent is re-granted.
C36_PermissionsKept == [](C36_Outcome) /\ [][C36_Step]_vars

\* Consent has just been re-granted on an asset with a delegated wallet that
\* is not its owner: the wallet has access again.
C36_Witness ==
    /\ last.op = "grantConsent" /\ last.err = OK
    /\ \E w \in Delegates :
          /\ permittedWallets[last.args[2]][w]
          /\ bioips[last.args[2]].owner # w
          /\ ~Holds(w, last.args[2])
          /\ checkConsent(last.args[2], w)

\* The consent events of asset t, and the positions of the events of a kind
\* about a token.
C37_IsConsentEvent(e) == e.name \in {"ConsentRevoked", "ConsentGranted", "ContentDeleted"}

C37_ConsentEvents(t) ==
    LET about(e) == C37_IsConsentEvent(e) /\ e.args[1] = t IN SelectSeq(events, about)

C37_Positions(name, id) ==
    {i \in DOMAIN events : events[i].name = name /\ events[i].args[1] = id}

\* Consent events come after the asset's creation event and alternate
\* ConsentRevoked, ConsentGranted, ...; ContentDeleted comes once, last.
C37_ConsentLog ==
    \A t \in TokenIds :
        LET ce == C37_ConsentEvents(t) IN
            /\ \A i \in DOMAIN events :
                   (C37_IsConsentEvent(events[i]) /\ events[i].args[1] = t) =>
                       \E j \in 1..(i - 1) : j \in C37_Positions("BioIPMinted", t)
            /\ \A i \in DOMAIN ce :
                   /\ ce[i].name = "ContentDeleted" => i = Len(ce)
                   /\ ce[i].name # "ContentDeleted" =>
                          ce[i].name = IF i % 2 = 1 THEN "ConsentRevoked" ELSE "ConsentGranted"

\* LicenseTokenConsumed comes once for a token, after its LicenseTokenMinted
\* and right after the BioIPDerivativeCreated of the same registration.
C37_LicenseLog ==
    \A l \in LicenseIds :
        /\ Cardinality(C37_Positions("LicenseTokenConsumed", l)) <= 1
        /\ \A i \in C37_Positions("LicenseTokenConsumed", l) :
               /\ \E j \in 1..(i - 1) : j \in C37_Positions("LicenseTokenMinted", l)
               /\ i > 1
               /\ events[i - 1].name = "BioIPDerivativeCreated"
               /\ events[i - 1].args[1] = events[i].args[2]
               /\ events[i - 1].args[3] = l

\* A failed operation emits nothing; a committed one appends its events.
C37_Step ==
    /\ last'.err # OK => events' = events
    /\ Len(events') >= Len(events)
    /\ SubSeq(events', 1, Len(events)) = events
    /\ (last' # last /\ last'.op \in {"grantConsent", "revokeConsent", "burnAndDelete",
                                        "registerDerivative"} /\ last'.err = OK) =>
          Len(events') > Len(events)

\* C37: the event log follows the state machines: failed operations emit no
\* event; an asset's consent events after its creation alternate
\* ConsentRevoked, ConsentGranted, ... starting with ConsentRevoked, with
\* ContentDeleted at most once and last; LicenseTokenConsumed is emitted at
\* most once per license token, after its LicenseTokenMinted and together
\* with the BioIPDerivativeCreated of the same registration.
C37_EventLog == [](C37_ConsentLog /\ C37_LicenseLog) /\ [][C37_Step]_vars

\* The log holds ConsentRevoked then ConsentGranted for an asset and the
\* consumption of a license token.
C37_Witness ==
    /\ \E t \in TokenIds :
          /\ Len(C37_ConsentEvents(t)) >= 2
          /\ C37_ConsentEvents(t)[2].name = "ConsentGranted"
    /\ \E l \in LicenseIds : C37_Positions("LicenseTokenConsumed", l) # {}

\* The two contracts hold the same consent data and answer checkConsent alike.
C38_SameConsent ==
    \A t \in BothTokenIds :
        /\ bioips[t].consentState = consentRegistry.consents[t].state
        /\ bioips[t].revokedAt = consentRegistry.consents[t].revokedAt
        /\ permittedWallets[t] = consentRegistry.permittedWallets[t]
        /\ deletionProofs[t] = consentRegistry.deletionProofs[t]
        /\ \A w \in Addresses :
               checkConsent(t, w) = ConsentRegistry_checkConsent(consentRegistry, t, w)

\* The latest call succeeded in both contracts or in neither.
C38_SameOutcome ==
    /\ (consentRegistry.call.bio = OK) <=> (consentRegistry.call.consent = OK)
    /\ consentRegistry.call.op = "checkConsent" =>
           consentRegistry.call.args[3] = consentRegistry.call.args[4]

\* C38 as stated: for every sequence of shared consent calls, each call
\* succeeds in BioIPRegistry exactly when it succeeds in ConsentRegistry, and
\* after every step consent state, revokedAt, permission flags, deletion
\* proofs and checkConsent results agree.
C38_Refines == C38_SameOutcome /\ C38_SameConsent

\* The call just made is grantPermission with the zero address as wallet, by
\* a caller that one of the contracts accepts.
C38_ZeroWallet ==
    /\ consentRegistry'.call.op = "grantPermission"
    /\ consentRegistry'.call.args # <<>>
    /\ consentRegistry'.call.args[3] = ZeroAddress

C38_Step ==
    /\ (C38_SameConsent /\ ~C38_ZeroWallet) => (C38_SameOutcome' /\ C38_SameConsent')
    /\ C38_ZeroWallet =>
          /\ consentRegistry'.call.consent # OK
          /\ consentRegistry'.permittedWallets = consentRegistry.permittedWallets
          /\ consentRegistry'.call.bio = OK <=>
                 /\ Holds(consentRegistry'.call.args[1], consentRegistry'.call.args[2])
                 /\ bioips[consentRegistry'.call.args[2]].consentState = "ACTIVE"

\* C38, amended: as long as grantPermission is not called with the zero
\* address, every shared consent call succeeds in both contracts or in
\* neither and the consent data of the two agree after it;
\* grantPermission(tokenId, address(0)) always reverts in ConsentRegistry and
\* succeeds in BioIPRegistry for the holder of an ACTIVE asset.
C38_RefinesExceptZeroWallet ==
    (C38_SameConsent /\ C38_SameOutcome) /\ [][C38_Step]_vars

\* A wallet was delegated and consent then revoked, at a later block, on both
\* contracts, and the two agree.
C38_Witness ==
    /\ C38_SameConsent
    /\ consentRegistry.call.op = "revokeConsent"
    /\ consentRegistry.call.consent = OK
    /\ \E t \in Existing :
          /\ consentRegistry.consents[t].state = "REVOKED"
          /\ consentRegistry.consents[t].revokedAt > 1
          /\ consentRegistry.permittedWallets[t]["B"]
          /\ consentRegistry.consents[t].owner # "B"

\* C39: on every manager and checker, after any sequence of calls,
\* getClient(chain) returns an error for a chain that is not configured and
\* otherwise, unless the dial fails, a client connected to the RPC endpoint
\* configured for the chain asked for.
C39_ClientOfRequestedChain ==
    \A o \in Objects :
        LET call == managers[o].call IN
            call.chain # "" =>
                IF call.chain \notin DOMAIN chainRPC
                THEN call.err # nil /\ call.client = nil
                ELSE /\ call.err \in {nil, ErrDial}
                     /\ call.err = nil => call.client = chainRPC[call.chain]

====
